---- MODULE Spec2Model ----
(***************************************************************************)
(* Model of the indexing core of FastFileIndex: the catalog (volumes and   *)
(* files tables), the USN monitor (resume, poll, dedup, apply, persist),   *)
(* the bulk ingestors driven by the orchestrator and the FAT reconciler,   *)
(* and the mount / unmount handlers of the event router.                   *)
(***************************************************************************)
EXTENDS Integers, Sequences, FiniteSets, Bags, TLC

(* ------------------------------------------------------------------ *)
(* Bounds of the model (not program constants)                        *)
(* ------------------------------------------------------------------ *)
\* longest polling batch handed to deduplicate_changes in the dedup specification
MaxBatch == 3
\* number of records the environment writes to a change journal
MaxJournal == 3
\* number of times the change journal can be deleted and created again
MaxRecreate == 1
\* highest rowid of the volumes table (caps the number of re-inserted records)
MaxVolId == 4
\* number of mount / unmount notifications the OS raises
MaxEvents == 2
\* last instant of the abstract clock
MaxTime == 3
\* number of service restarts
MaxRestarts == 1
\* largest cursor / journal position drawn as an input of resume
MaxUsnIn == 4
\* width in bits of the model's USN integers (i64 / u64 in the program)
UsnBits == 4
\* rows per transaction of a bulk insert (100 000 in the program, scaled down)
BATCH_SIZE == 2
\* most rows handed to one call of batch_insert_files in the catalog specification
MaxInsertLen == 3
\* most changes handed to one call of apply_changes_batch in the catalog specification
MaxApplyLen == 1
\* most rows handed to batch_insert_files in the specification of single operations
MaxOpLen == 4
\* most rows of a files table drawn in the specification of single operations
MaxTableRows == 2
\* the reconcile interval of the FAT volume, in clock instants
ReconcileTicks == 1
\* the debounce window of mount events (100 ms in the program), in clock instants
DebounceTicks == 1
\* the interval between two sweeps of the offline volumes (a day), in clock instants
CleanupTicks == 1
\* database faults the environment injects in one run
MaxFaults == 1
\* longest batch handed to apply_changes_batch with failing statements
MaxStatements == 2
\* searches the popup spawns in one run
MaxSearches == 3
\* the debounce of the search box (SEARCH_DEBOUNCE_MS, 100 ms), in clock instants
SearchDebounceTicks == 1
\* records of the journal the iterator may fail to read in one behaviour
MaxReadErrors == 1
\* general.offline_retention_days of the configuration, in clock instants
RetentionTicks == 2

(* ------------------------------------------------------------------ *)
(* Values                                                             *)
(* ------------------------------------------------------------------ *)
\* SQL NULL / Option::None of an integer column
NULL == 0 - 1

Max(S) == CHOOSE x \in S : \A y \in S : y <= x
Min(S) == CHOOSE x \in S : \A y \in S : x <= y

RECURSIVE SeqOfSet(_)
\* the elements of a finite set of integers as an ascending sequence
SeqOfSet(S) == IF S = {} THEN <<>> ELSE <<Min(S)>> \o SeqOfSet(S \ {Min(S)})


\* all orders in which the elements of a finite set can be listed
Perms(S) ==
    {s \in [1..Cardinality(S) -> S] : \A i, j \in 1..Cardinality(S) : s[i] = s[j] => i = j}

ChangeTypes == {"Create", "Delete", "Rename", "Modify"}

\* drive letters of the modelled machine: C is NTFS, D is a removable FAT32 volume
NtfsDrive == "C"
FatDrive == "D"
\* a second FAT drive whose medium stays in: a card reader, on the machines
\* that have one (env.card)
CardDrive == "E"
Drives == {NtfsDrive, FatDrive}

(* ------------------------------------------------------------------ *)
(* Catalog: volumes table                                             *)
(* ------------------------------------------------------------------ *)

\* rowid chosen for a new row of a table whose rowids are ids
NewRowid(ids) == IF ids = {} THEN 1 ELSE Max(ids) + 1

get_volume(vols, drive) ==
    IF \E v \in vols : v.drive_letter = drive
    THEN CHOOSE v \in vols : v.drive_letter = drive
    ELSE [id |-> NULL]

\* INSERT OR REPLACE INTO volumes (drive_letter, volume_serial, fs_type, last_scan_time):
\* the row holding the drive letter is deleted and a new row is inserted with a
\* new rowid; the columns not listed take their defaults.
insert_volume(vols, drive, serial, fs, t) ==
    LET id  == NewRowid({v.id : v \in vols})
        row == [id |-> id, drive_letter |-> drive, volume_serial |-> serial,
                fs_type |-> fs, last_usn |-> NULL, usn_journal_id |-> NULL,
                last_scan_time |-> t, state |-> "online", offline_since |-> NULL]
    IN  [vols |-> {v \in vols : v.drive_letter # drive} \cup {row}, id |-> id]

update_volume_usn(vols, volume_id, last_usn, journal_id) ==
    {IF v.id = volume_id
     THEN [v EXCEPT !.last_usn = last_usn, !.usn_journal_id = journal_id]
     ELSE v : v \in vols}

\* Some((last_usn, journal_id)) when both columns are set, else None
get_volume_usn(vols, volume_id) ==
    LET rows == {v \in vols : v.id = volume_id /\ v.last_usn # NULL /\ v.usn_journal_id # NULL}
    IN  IF rows = {} THEN [some |-> FALSE, last_usn |-> NULL, journal_id |-> NULL]
        ELSE LET v == CHOOSE v \in rows : TRUE
             IN  [some |-> TRUE, last_usn |-> v.last_usn, journal_id |-> v.usn_journal_id]

\* state is one of online, offline, indexing, rescanning, disabled; since is the
\* timestamp of VolumeState::Offline, NULL for the other states
update_volume_state(vols, volume_id, state, since) ==
    {IF v.id = volume_id
     THEN [v EXCEPT !.state = state, !.offline_since = since]
     ELSE v : v \in vols}

\* VolumeState::from_db: the state a record's columns are read as; the since of
\* Offline is 0 when the offline_since column is NULL
from_db(state_str, offline_since) ==
    IF state_str = "offline"
    THEN [state |-> "Offline", since |-> IF offline_since = NULL THEN 0 ELSE offline_since]
    ELSE IF state_str \in {"indexing", "rescanning", "disabled"}
    THEN [state |-> CASE state_str = "indexing" -> "Indexing"
                      [] state_str = "rescanning" -> "Rescanning"
                      [] state_str = "disabled" -> "Disabled",
          since |-> NULL]
    ELSE [state |-> "Online", since |-> NULL]

(* ------------------------------------------------------------------ *)
(* Catalog: files table (a bag of rows: the table's own rowid is not  *)
(* modelled, so equal rows are kept apart by their multiplicity)      *)
(* ------------------------------------------------------------------ *)

FileRow(volume_id, file_ref, parent_ref, name, size, modified, is_dir) ==
    [volume_id |-> volume_id, file_ref |-> file_ref, parent_ref |-> parent_ref,
     name |-> name, size |-> size, modified |-> modified, is_dir |-> is_dir]

RowsOf(fs, volume_id, file_ref) ==
    {r \in BagToSet(fs) : r.volume_id = volume_id /\ r.file_ref = file_ref}

\* the bag fs without the rows of set gone
Without(fs, gone) ==
    LET keep == BagToSet(fs) \ gone IN [r \in keep |-> fs[r]]

\* a files table without the UNIQUE(volume_id, file_ref) constraint: the faulty
\* variant of Conflicts that C10 has to tell from the schema
Conflicts_no_unique(fs, row) == FALSE

\* UNIQUE(volume_id, file_ref): a NULL file_ref never conflicts
Conflicts(fs, row) ==
    row.file_ref # NULL /\ RowsOf(fs, row.volume_id, row.file_ref) # {}

RECURSIVE InsertChunk(_, _, _)
\* the statements of one transaction of batch_insert_files: the rows of chunk from
\* position i on; ok is FALSE when an INSERT fails
InsertChunk(fs, chunk, i) ==
    IF i > Len(chunk) THEN [files |-> fs, ok |-> TRUE]
    ELSE IF Conflicts(fs, chunk[i]) THEN [files |-> fs, ok |-> FALSE]
    ELSE InsertChunk(fs (+) SetToBag({chunk[i]}), chunk, i + 1)

\* a bulk insert that runs the whole call as one transaction: the faulty variant
\* of InsertChunks that C11 has to tell from the code
InsertChunks_one_transaction(fs, rows, total) ==
    IF InsertChunk(fs, rows, 1).ok
    THEN [files |-> InsertChunk(fs, rows, 1).files, ok |-> TRUE, inserted |-> total + Len(rows)]
    ELSE [files |-> fs, ok |-> FALSE, inserted |-> 0]

RECURSIVE InsertChunks(_, _, _)
\* for chunk in files.chunks(BATCH_SIZE): one transaction per chunk; a failed INSERT
\* returns the error, and dropping the transaction rolls the chunk back
InsertChunks(fs, rows, total) ==
    IF rows = <<>> THEN [files |-> fs, ok |-> TRUE, inserted |-> total]
    ELSE LET n     == IF Len(rows) < BATCH_SIZE THEN Len(rows) ELSE BATCH_SIZE
             chunk == SubSeq(rows, 1, n)
             res   == InsertChunk(fs, chunk, 1)
         IN  IF res.ok
             THEN InsertChunks(res.files, SubSeq(rows, n + 1, Len(rows)), total + n)
             ELSE [files |-> fs, ok |-> FALSE, inserted |-> 0]

batch_insert_files(fs, rows) == InsertChunks(fs, rows, 0)

\* a delete without its WHERE clause: the faulty variant of delete_volume_files
\* that C13 has to tell from the code
delete_volume_files_every_volume(fs, volume_id) ==
    [files |-> EmptyBag, deleted |-> BagCardinality(fs)]

\* DELETE FROM files WHERE volume_id = ?1, and the number of rows it removed
delete_volume_files(fs, volume_id) ==
    LET gone == {r \in BagToSet(fs) : r.volume_id = volume_id}
    IN  [files |-> Without(fs, gone), deleted |-> BagCardinality(fs) - BagCardinality(Without(fs, gone))]

\* a count without its WHERE clause: the faulty variant of get_file_count that
\* C12 has to tell from the code
get_file_count_every_volume(fs, volume_id) == BagCardinality(fs)

\* SELECT COUNT(*) FROM files WHERE volume_id = ?1
get_file_count(fs, volume_id) ==
    BagCardinality(Without(fs, {r \in BagToSet(fs) : r.volume_id # volume_id}))

\* the loop of reconstruct_path at current_ref = Some(ref) or None (NULL) with
\* the components pushed so far; seen: the refs already queried. The table does
\* not change during the call, so a ref that is queried a second time is
\* queried for ever: the call does not return.
RECURSIVE WalkUp(_, _, _, _, _)
WalkUp(fs, volume_id, ref, components, seen) ==
    IF ref = NULL
    THEN [returns |-> TRUE, components |-> components]
    ELSE IF ref \in seen
    THEN [returns |-> FALSE, components |-> <<>>]
    ELSE IF RowsOf(fs, volume_id, ref) = {}
    THEN [returns |-> TRUE, components |-> components]
    ELSE LET row == CHOOSE r \in RowsOf(fs, volume_id, ref) : TRUE
         IN  WalkUp(fs, volume_id, row.parent_ref,
                    IF row.name # "" /\ row.name # "."
                    THEN Append(components, row.name) ELSE components,
                    seen \cup {ref})

\* components.reverse()
Reverse(components) ==
    [i \in 1..Len(components) |-> components[Len(components) + 1 - i]]

\* reconstruct_path: the PathBuf as the sequence of its components
reconstruct_path(fs, volume_id, file_ref) ==
    LET w == WalkUp(fs, volume_id, file_ref, <<>>, {})
    IN  [returns |-> w.returns, path |-> Reverse(w.components)]

\* a sweep that asks for no retention: the faulty variant of
\* cleanup_old_offline_volumes that C19 has to tell from the specified one
cleanup_every_offline_volume(vols, fs, retention, t) ==
    LET gone == {r \in BagToSet(fs) :
                    \E v \in vols : v.id = r.volume_id /\ v.state = "offline"}
    IN  [files |-> Without(fs, gone),
         deleted |-> BagCardinality(fs) - BagCardinality(Without(fs, gone))]

\* cleanup_old_offline_volumes(retention_days) at time t: every row whose volume
\* has been Offline for at least the retention is deleted; the number of rows
\* deleted is returned
cleanup_old_offline_volumes(vols, fs, retention, t) ==
    LET old  == {v \in vols : /\ from_db(v.state, v.offline_since).state = "Offline"
                               /\ t - from_db(v.state, v.offline_since).since >= retention}
        gone == {r \in BagToSet(fs) : \E v \in old : v.id = r.volume_id}
    IN  [files |-> Without(fs, gone),
         deleted |-> BagCardinality(fs) - BagCardinality(Without(fs, gone))]

(* ------------------------------------------------------------------ *)
(* USN monitor: pure parts                                            *)
(* ------------------------------------------------------------------ *)

UsnChange(file_ref, parent_ref, name, change_type) ==
    [file_ref |-> file_ref, parent_ref |-> parent_ref, name |-> name,
     change_type |-> change_type, is_dir |-> FALSE]

RECURSIVE DedupFold(_, _, _)
\* the loop of deduplicate_changes: final_state is a map file_ref -> change
DedupFold(changes, i, final_state) ==
    IF i > Len(changes) THEN final_state
    ELSE LET change   == changes[i]
             file_ref == change.file_ref
         IN  IF /\ file_ref \in DOMAIN final_state
                /\ final_state[file_ref].change_type = "Create"
                /\ change.change_type = "Delete"
             THEN DedupFold(changes, i + 1,
                            [r \in DOMAIN final_state \ {file_ref} |-> final_state[r]])
             ELSE DedupFold(changes, i + 1,
                            [r \in DOMAIN final_state \cup {file_ref} |->
                                IF r = file_ref THEN change ELSE final_state[r]])

\* positions of the changes for file_ref x in a sequence of changes
PosOf(changes, x) == {i \in 1..Len(changes) : changes[i].file_ref = x}

\* a dedup where the first change of a ref wins: the faulty variant of
\* deduplicate_changes that C2 has to tell from the code
deduplicate_changes_first_wins(changes) ==
    Perms({changes[Min(PosOf(changes, x))] : x \in {changes[i].file_ref : i \in 1..Len(changes)}})

\* final_state.into_values().collect(): a HashMap yields its values in an order
\* the program does not fix, so every order is a possible result
deduplicate_changes(changes) ==
    LET final_state == DedupFold(changes, 1, <<>>)
    IN  Perms({final_state[r] : r \in DOMAIN final_state})

\* a statement whose Modify writes parent_ref as Rename does: the faulty variant
\* of the statements that C28 has to tell from the code
ApplyChange_modify_sets_parent(fs, volume_id, change) ==
    LET old == RowsOf(fs, volume_id, change.file_ref)
    IN  CASE change.change_type = "Create" ->
                Without(fs, old) (+)
                SetToBag({FileRow(volume_id, change.file_ref, change.parent_ref,
                                  change.name, 0, NULL, change.is_dir)})
          [] change.change_type = "Delete" -> Without(fs, old)
          [] change.change_type \in {"Rename", "Modify"} ->
                Without(fs, old) (+)
                SetToBag({[r EXCEPT !.name = change.name,
                                    !.parent_ref = change.parent_ref] : r \in old})

\* one statement of apply_changes_batch
ApplyChange(fs, volume_id, change) ==
    LET old == RowsOf(fs, volume_id, change.file_ref)
    IN  CASE change.change_type = "Create" ->
                \* INSERT OR REPLACE: size, modified take their defaults
                Without(fs, old) (+)
                SetToBag({FileRow(volume_id, change.file_ref, change.parent_ref,
                                  change.name, 0, NULL, change.is_dir)})
          [] change.change_type = "Delete" -> Without(fs, old)
          [] change.change_type = "Rename" ->
                Without(fs, old) (+)
                SetToBag({[r EXCEPT !.name = change.name,
                                    !.parent_ref = change.parent_ref] : r \in old})
          [] change.change_type = "Modify" ->
                Without(fs, old) (+)
                SetToBag({[r EXCEPT !.name = change.name] : r \in old})

RECURSIVE ApplyFrom(_, _, _, _)
ApplyFrom(fs, volume_id, changes, i) ==
    IF i > Len(changes) THEN fs
    ELSE ApplyFrom(ApplyChange(fs, volume_id, changes[i]), volume_id, changes, i + 1)

RECURSIVE ApplyStatements_stop_at_failure(_, _, _, _, _)
\* a loop that gives up at the first failing statement: the faulty variant of the
\* loop that C29 has to tell from the code
ApplyStatements_stop_at_failure(fs, volume_id, changes, i, failed) ==
    IF i > Len(changes) \/ i \in failed THEN [files |-> fs, applied |-> 0]
    ELSE LET rest == ApplyStatements_stop_at_failure(ApplyChange(fs, volume_id, changes[i]),
                                                     volume_id, changes, i + 1, failed)
         IN  [rest EXCEPT !.applied = @ + 1]

RECURSIVE ApplyStatements(_, _, _, _, _)
\* the loop of apply_changes_batch when the statements at the positions in failed
\* return Err: such a statement changes nothing and is not counted
ApplyStatements(fs, volume_id, changes, i, failed) ==
    IF i > Len(changes) THEN [files |-> fs, applied |-> 0]
    ELSE IF i \in failed
    THEN ApplyStatements(fs, volume_id, changes, i + 1, failed)
    ELSE LET rest == ApplyStatements(ApplyChange(fs, volume_id, changes[i]),
                                     volume_id, changes, i + 1, failed)
         IN  [rest EXCEPT !.applied = @ + 1]

\* apply_changes_batch with failing statements; db_ok: the transaction could be
\* started and committed. applied: the count of Ok(applied)
apply_changes_batch_failing(fs, volume_id, changes, failed, db_ok) ==
    IF changes = <<>> THEN [files |-> fs, ok |-> TRUE, applied |-> 0]
    ELSE IF db_ok
    THEN LET done == ApplyStatements(fs, volume_id, changes, 1, failed)
         IN  [files |-> done.files, ok |-> TRUE, applied |-> done.applied]
    ELSE [files |-> fs, ok |-> FALSE, applied |-> 0]

\* apply_changes_batch when every statement succeeds
\* db_ok: the transaction could be started and committed
apply_changes_batch(fs, volume_id, changes, db_ok) ==
    IF changes = <<>> THEN [files |-> fs, ok |-> TRUE, applied |-> 0]
    ELSE IF db_ok
    THEN [files |-> ApplyFrom(fs, volume_id, changes, 1), ok |-> TRUE, applied |-> Len(changes)]
    ELSE [files |-> fs, ok |-> FALSE, applied |-> 0]

\* x as u64, for an x of the model's integer width
AsUnsigned(x) == x % (2 ^ UsnBits)
\* x as i64
AsSigned(x) ==
    LET u == x % (2 ^ UsnBits) IN IF u >= 2 ^ (UsnBits - 1) THEN u - 2 ^ UsnBits ELSE u

\* a resume that tests the position before the journal id: the faulty variant
\* of resume that C4 has to tell from the code
resume_wrap_first(last_usn, journal_id, metadata) ==
    IF AsUnsigned(last_usn) < AsUnsigned(metadata.lowest_valid_usn)
    THEN [ok |-> FALSE, err |-> "JournalWrapped",
          old_id |-> NULL, new_id |-> NULL,
          last_processed |-> last_usn,
          lowest_valid |-> AsSigned(AsUnsigned(metadata.lowest_valid_usn)),
          last_usn |-> NULL, journal_id |-> NULL]
    ELSE IF metadata.journal_id # journal_id
    THEN [ok |-> FALSE, err |-> "JournalRecreated",
          old_id |-> journal_id, new_id |-> metadata.journal_id,
          last_processed |-> NULL, lowest_valid |-> NULL,
          last_usn |-> NULL, journal_id |-> NULL]
    ELSE [ok |-> TRUE, err |-> "none",
          old_id |-> NULL, new_id |-> NULL, last_processed |-> NULL, lowest_valid |-> NULL,
          last_usn |-> last_usn, journal_id |-> journal_id]

\* UsnMonitor::resume, after the journal metadata was read
resume(last_usn, journal_id, metadata) ==
    IF metadata.journal_id # journal_id
    THEN [ok |-> FALSE, err |-> "JournalRecreated",
          old_id |-> journal_id, new_id |-> metadata.journal_id,
          last_processed |-> NULL, lowest_valid |-> NULL,
          last_usn |-> NULL, journal_id |-> NULL]
    ELSE IF AsUnsigned(last_usn) < AsUnsigned(metadata.lowest_valid_usn)
    THEN [ok |-> FALSE, err |-> "JournalWrapped",
          old_id |-> NULL, new_id |-> NULL,
          last_processed |-> last_usn,
          lowest_valid |-> AsSigned(AsUnsigned(metadata.lowest_valid_usn)),
          last_usn |-> NULL, journal_id |-> NULL]
    ELSE [ok |-> TRUE, err |-> "none",
          old_id |-> NULL, new_id |-> NULL, last_processed |-> NULL, lowest_valid |-> NULL,
          last_usn |-> last_usn, journal_id |-> journal_id]

\* journal.query(): the metadata of the journal as the OS reports it. first_usn is
\* the first record that can still be read, next_usn the one written next.
Metadata(j) ==
    [journal_id |-> j.journal_id,
     first_usn |-> IF j.recs = <<>> THEN j.next_usn ELSE j.recs[1].usn,
     lowest_valid_usn |-> j.lowest_valid_usn,
     next_usn |-> j.next_usn]

\* UsnMonitor::new
new(metadata) ==
    [ok |-> TRUE, err |-> "none", last_usn |-> metadata.first_usn,
     journal_id |-> metadata.journal_id]

\* UsnMonitor::poll_changes on a monitor m = (last_usn, journal_id): the error, or
\* the changes read and the new cursor. unreadable: the USNs of the records for
\* which the journal iterator yields Err; the loop logs them and goes on
poll_changes_reading(m, j, unreadable) ==
    LET metadata == Metadata(j)
        newer    == SelectSeq(j.recs, LAMBDA r : r.usn \notin unreadable /\ r.usn > m.last_usn)
    IN  IF metadata.journal_id # m.journal_id
        THEN [ok |-> FALSE, err |-> "JournalRecreated", changes |-> <<>>, last_usn |-> m.last_usn]
        ELSE IF AsUnsigned(m.last_usn) < AsUnsigned(metadata.lowest_valid_usn)
        THEN [ok |-> FALSE, err |-> "JournalWrapped", changes |-> <<>>, last_usn |-> m.last_usn]
        ELSE [ok |-> TRUE, err |-> "none",
              changes |-> [i \in 1..Len(newer) |-> newer[i].change],
              last_usn |-> IF newer = <<>> THEN m.last_usn ELSE newer[Len(newer)].usn]

\* poll_changes when every record can be read
poll_changes(m, j) == poll_changes_reading(m, j, {})

\* USN reason flags
USN_REASON_FILE_CREATE == 256
USN_REASON_FILE_DELETE == 512
USN_REASON_RENAME_OLD_NAME == 4096
USN_REASON_RENAME_NEW_NAME == 8192

\* reason & flag != 0, for a flag of one bit
HasFlag(reason, flag) == (reason \div flag) % 2 = 1

\* a classification that looks at the create bit first: the faulty variant of
\* reason_to_change_type that C33 has to tell from the code
reason_to_change_type_create_first(reason) ==
    IF HasFlag(reason, USN_REASON_FILE_CREATE) THEN "Create"
    ELSE IF HasFlag(reason, USN_REASON_FILE_DELETE) THEN "Delete"
    ELSE IF \/ HasFlag(reason, USN_REASON_RENAME_NEW_NAME)
            \/ HasFlag(reason, USN_REASON_RENAME_OLD_NAME) THEN "Rename"
    ELSE "Modify"

\* UsnMonitor::reason_to_change_type
reason_to_change_type(reason) ==
    IF HasFlag(reason, USN_REASON_FILE_DELETE) THEN "Delete"
    ELSE IF HasFlag(reason, USN_REASON_FILE_CREATE) THEN "Create"
    ELSE IF \/ HasFlag(reason, USN_REASON_RENAME_NEW_NAME)
            \/ HasFlag(reason, USN_REASON_RENAME_OLD_NAME) THEN "Rename"
    ELSE "Modify"

\* trigger_background_rescan(drive_letter) only writes a log line: the bulk scans
\* sc of the indexer stay as they are, none is started for the drive
trigger_background_rescan(sc, drive) == sc

(* ------------------------------------------------------------------ *)
(* Configuration and the machine                                      *)
(* ------------------------------------------------------------------ *)

\* the configuration in which every volume has an entry with enabled = true
EnabledVolumes == {NtfsDrive, FatDrive}

\* names and parents a journal record can carry
Places == {[name |-> "a", parent_ref |-> 5], [name |-> "b", parent_ref |-> 6]}
\* MFT record numbers of the files that come and go on the NTFS volume
FileRefs == {1, 2}
\* the root directory of the NTFS volume: record 5, its own parent
MftRoot == [file_ref |-> 5, parent_ref |-> 5, name |-> ".", size |-> 0,
            modified |-> NULL, is_dir |-> TRUE]

\* the serial of the medium in the card reader
CardSerial == "CCCC"
\* serials of the media that can sit in the removable drive
Serials == {"AAAA", "BBBB"}
\* the directory walk of a medium, in walk order: name, index of the parent
\* directory in the walk (0: the root), directory flag
FatWalk(serial) ==
    CASE serial = "AAAA" -> <<[name |-> "x", parent |-> 0, is_dir |-> TRUE],
                              [name |-> "y", parent |-> 1, is_dir |-> FALSE]>>
      [] serial = "BBBB" -> <<[name |-> "z", parent |-> 0, is_dir |-> FALSE]>>
      [] serial = CardSerial -> <<[name |-> "w", parent |-> 0, is_dir |-> FALSE]>>
      [] OTHER -> <<>>

VARIABLES
    volumes,   \* the volumes table: a set of rows
    files,     \* the files table: a bag of rows
    disk,      \* the files of the NTFS volume: a set of MFT entries
    mounted,   \* the serial of the medium in the removable drive, or "none"
    journal,   \* the change journal of the NTFS volume
    mon,       \* the USN monitor thread of the NTFS volume
    scan,      \* the bulk scan each of the orchestrator and the reconciler runs
    idx,       \* the orchestrator thread (run_indexer)
    rec,       \* the FAT reconciler thread
    router,    \* the event router thread and its channel
    now,       \* the clock
    env,       \* counters bounding the environment, and the configuration file
    dd,        \* deduplicate_changes / apply_changes_batch applied to a drawn batch
    rs,        \* UsnMonitor::resume applied to drawn inputs
    cat        \* the last operation called on the files table with drawn arguments

\* Config::is_volume_enabled: the drive has an entry with enabled = true in the
\* configuration loaded at startup (env.enabled); no entry counts as false
is_volume_enabled(drive) == drive \in env.enabled

vars == <<volumes, files, disk, mounted, journal, mon, scan, idx, rec, router, now, env, dd, rs, cat>>

sysvars == <<volumes, files, disk, mounted, journal, mon, scan, idx, rec, router, now, env>>

\* replaced: the id of the record that the scan's insert_volume replaced (NULL: the
\* drive had no record)
ScanIdle == [pc |-> "idle", drive |-> "none", vid |-> NULL, replaced |-> NULL,
             cursor |-> 0, result |-> "none"]
MonOff == [pc |-> "off", last_usn |-> NULL, journal_id |-> NULL, volume_id |-> NULL,
           report |-> "none", applied |-> "none"]
\* shutdown_rx: the messages waiting in the orchestrator's shutdown channel;
\* shutdown_sent: run_service has sent its stop message
\* status: the service state run_service has reported last
IdxOff == [pc |-> "off", todo |-> <<>>, shutdown_rx |-> 0, shutdown_sent |-> FALSE,
           status |-> "StartPending"]
\* vols: the drives of the reconciler; last_scan: the instant of the last scan
\* of each; drive: the drive check_and_reconcile is at
RecOff == [pc |-> "off", vols |-> {}, drive |-> "none", last_scan |-> [d \in {} |-> 0],
           last_cleanup |-> 0]
RouterOff == [events |-> <<>>, pending |-> NULL]
DdOff == [pc |-> "off", batch |-> <<>>, deduped |-> <<>>, log |-> <<>>,
          before |-> <<>>, after |-> <<>>]
RsOff == [pc |-> "off", last_usn |-> NULL, journal_id |-> NULL,
          metadata |-> [journal_id |-> NULL], out |-> [ok |-> FALSE, err |-> "none"]]

\* the environment at startup: no event yet, the configuration file read (the
\* drives with enabled = true), whether the machine has the card reader, and no
\* fault of the database so far
StartEnv(enabled, card) ==
    [events |-> 0, restarts |-> 0, recreated |-> 0, enabled |-> enabled,
     card |-> card, faults |-> {}]

\* the machine when the service is started for the first time in environment e:
\* an empty catalog, one file on the NTFS volume and its creation in the journal
SysStart(e) ==
    /\ volumes = {}
    /\ files = EmptyBag
    /\ disk = {[file_ref |-> 1, parent_ref |-> 5, name |-> "a", size |-> 1,
                modified |-> NULL, is_dir |-> FALSE]}
    /\ mounted = "AAAA"
    /\ journal = [journal_id |-> 1, lowest_valid_usn |-> 1, next_usn |-> 2,
                  recs |-> <<[usn |-> 1, change |-> UsnChange(1, 5, "a", "Create")]>>]
    /\ mon = MonOff
    /\ scan = [p \in {"idx", "rec"} |-> ScanIdle]
    /\ idx = IdxOff
    /\ rec = RecOff
    /\ router = RouterOff
    /\ now = 1
    /\ env = e

\* every volume enabled, no card reader
SysInit == SysStart(StartEnv(EnabledVolumes, FALSE))

CatOff == [op |-> "none", ok |-> TRUE, created |-> FALSE]

Init == SysInit /\ dd = DdOff /\ rs = RsOff /\ cat = CatOff

(* ------------------------------------------------------------------ *)
(* Environment: the filesystem, the journal, the removable drive      *)
(* ------------------------------------------------------------------ *)

\* the journal record the OS writes for a change, and the disk after it
FsEffects ==
    {[change |-> UsnChange(r, pl.parent_ref, pl.name, "Create"),
      disk |-> disk \cup {[file_ref |-> r, parent_ref |-> pl.parent_ref, name |-> pl.name,
                           size |-> 1, modified |-> NULL, is_dir |-> FALSE]}]
        : r \in FileRefs \ {e.file_ref : e \in disk}, pl \in Places}
    \cup
    {[change |-> UsnChange(e.file_ref, e.parent_ref, e.name, "Delete"),
      disk |-> disk \ {e}] : e \in disk}
    \cup
    {[change |-> UsnChange(e[1].file_ref, e[2].parent_ref, e[2].name, "Rename"),
      disk |-> (disk \ {e[1]}) \cup
               {[e[1] EXCEPT !.name = e[2].name, !.parent_ref = e[2].parent_ref]}]
        : e \in {x \in disk \X Places : x[1].name # x[2].name}}
    \cup
    {[change |-> UsnChange(e.file_ref, e.parent_ref, e.name, "Modify"), disk |-> disk]
        : e \in disk}

\* a file of the NTFS volume is created, deleted, renamed or written
FsChange ==
    /\ journal.next_usn <= MaxJournal
    /\ \E fx \in FsEffects :
         /\ disk' = fx.disk
         /\ journal' = [journal EXCEPT
                          !.recs = Append(@, [usn |-> journal.next_usn, change |-> fx.change]),
                          !.next_usn = @ + 1]
    /\ UNCHANGED <<volumes, files, mounted, mon, scan, idx, rec, router, now, env, dd, rs, cat>>

\* the kernel reuses journal space: the records below u are gone
JournalWrap ==
    /\ \E u \in (journal.lowest_valid_usn + 1)..journal.next_usn :
         journal' = [journal EXCEPT
                       !.lowest_valid_usn = u,
                       !.recs = SelectSeq(@, LAMBDA r : r.usn >= u)]
    /\ UNCHANGED <<volumes, files, disk, mounted, mon, scan, idx, rec, router, now, env, dd, rs, cat>>

\* the journal is deleted and created again: a new id and no records; the new
\* journal numbers its records on from where the old one stopped
JournalRecreate ==
    /\ env.recreated < MaxRecreate
    /\ journal' = [journal_id |-> journal.journal_id + 1,
                   lowest_valid_usn |-> journal.next_usn,
                   next_usn |-> journal.next_usn, recs |-> <<>>]
    /\ env' = [env EXCEPT !.recreated = @ + 1]
    /\ UNCHANGED <<volumes, files, disk, mounted, mon, scan, idx, rec, router, now, dd, rs, cat>>

\* the medium is pulled out of the removable drive
OsUnmount ==
    /\ env.events < MaxEvents
    /\ mounted # "none"
    /\ mounted' = "none"
    /\ router' = [router EXCEPT !.events = Append(@, "Unmounted")]
    /\ env' = [env EXCEPT !.events = @ + 1]
    /\ UNCHANGED <<volumes, files, disk, journal, mon, scan, idx, rec, now, dd, rs, cat>>

\* a medium is put into the removable drive
OsMount ==
    /\ env.events < MaxEvents
    /\ mounted = "none"
    /\ \E s \in Serials : mounted' = s
    /\ router' = [router EXCEPT !.events = Append(@, "Mounted")]
    /\ env' = [env EXCEPT !.events = @ + 1]
    /\ UNCHANGED <<volumes, files, disk, journal, mon, scan, idx, rec, now, dd, rs, cat>>

\* the clock moves on while a timer of the program waits for it
Tick ==
    /\ now < MaxTime
    /\ \/ /\ rec.pc = "idle" /\ rec.vols # {}
          /\ \A d \in rec.vols : now - rec.last_scan[d] < ReconcileTicks
       \/ rec.pc = "idle" /\ now - rec.last_cleanup < CleanupTicks
       \/ router.pending # NULL /\ now - router.pending < DebounceTicks
    /\ now' = now + 1
    /\ UNCHANGED <<volumes, files, disk, mounted, journal, mon, scan, idx, rec, router, env, dd, rs, cat>>

\* the service process ends and is started again: the catalog file stays
ServiceRestart ==
    /\ env.restarts < MaxRestarts
    /\ env' = [env EXCEPT !.restarts = @ + 1]
    /\ mon' = MonOff
    /\ scan' = [p \in {"idx", "rec"} |-> ScanIdle]
    /\ idx' = IdxOff
    /\ rec' = RecOff
    /\ router' = RouterOff
    /\ UNCHANGED <<volumes, files, disk, mounted, journal, now, dd, rs, cat>>

(* ------------------------------------------------------------------ *)
(* Bulk scans: scan_ntfs_volume and scan_fat_volume                   *)
(* ------------------------------------------------------------------ *)

\* detect_volumes(): the drives present, in letter order
detect_volumes ==
    <<NtfsDrive>> \o (IF mounted = "none" THEN <<>> ELSE <<FatDrive>>)
                  \o (IF env.card THEN <<CardDrive>> ELSE <<>>)

\* the entries a walk of the medium with this serial yields, with the synthetic
\* references 1, 2, ... and the parent looked up in path_to_ref (the root is 0)
FatEntries(serial) ==
    LET w == FatWalk(serial)
    IN  [i \in 1..Len(w) |->
           [file_ref |-> i, parent_ref |-> w[i].parent, name |-> w[i].name,
            size |-> IF w[i].is_dir THEN 0 ELSE 1, modified |-> 1,
            is_dir |-> w[i].is_dir]]

\* the entries a scan of the drive reads, in the order it reads them: the MFT
\* records by record number; the walk of the medium in the removable drive
ScanEntries(drive) ==
    IF drive = NtfsDrive
    THEN LET es == disk \cup {MftRoot}
             byRef(r) == CHOOSE e \in es : e.file_ref = r
             refs == SeqOfSet({e.file_ref : e \in es})
         IN  [i \in 1..Len(refs) |-> byRef(refs[i])]
    ELSE IF drive = FatDrive THEN FatEntries(mounted)
    ELSE FatEntries(CardSerial)

\* the label the scan of the drive writes as fs_type
ScanFsLabel(drive) == IF drive = NtfsDrive THEN "NTFS" ELSE "FAT"

\* the head of scan_ntfs_volume / scan_fat_volume: the volume record is written
\* with an empty serial
ScanBegin(p, drive) ==
    LET res == insert_volume(volumes, drive, "", ScanFsLabel(drive), now)
    IN  /\ res.id <= MaxVolId
        /\ volumes' = res.vols
        /\ scan' = [scan EXCEPT ![p] = [pc |-> "walk", drive |-> drive, vid |-> res.id,
                                         replaced |-> get_volume(volumes, drive).id,
                                         cursor |-> 0, result |-> "none"]]

\* the scan of process p reads entries until its batch is full or the entries
\* end, and flushes the batch through batch_insert_files: the files table and the
\* scan after it. An error of the insert ends the scan.
ScanFlush(p) ==
    LET all   == ScanEntries(scan[p].drive)
        left  == SelectSeq(all, LAMBDA e : e.file_ref > scan[p].cursor)
        n     == IF Len(left) < BATCH_SIZE THEN Len(left) ELSE BATCH_SIZE
        batch == [i \in 1..n |->
                    FileRow(scan[p].vid, left[i].file_ref, left[i].parent_ref,
                            left[i].name, left[i].size, left[i].modified, left[i].is_dir)]
        res   == batch_insert_files(files, batch)
    IN  IF n = 0
        THEN [files |-> files, scan |-> [scan[p] EXCEPT !.pc = "end", !.result = "ok"]]
        ELSE IF ~res.ok
        THEN [files |-> files, scan |-> [scan[p] EXCEPT !.pc = "end", !.result = "err"]]
        ELSE [files |-> res.files,
              scan |-> [scan[p] EXCEPT
                          !.cursor = left[n].file_ref,
                          !.pc = IF n = Len(left) THEN "end" ELSE "walk",
                          !.result = IF n = Len(left) THEN "ok" ELSE "none"]]

ScanStep(p) ==
    /\ scan[p].pc = "walk"
    /\ files' = ScanFlush(p).files
    /\ scan' = [scan EXCEPT ![p] = ScanFlush(p).scan]
    /\ UNCHANGED <<volumes, disk, mounted, journal, mon, idx, rec, router, now, env, dd, rs, cat>>

\* the scan of process p has k entries in its batch when try_recv at a shutdown
\* checkpoint takes the stop message: the batch is flushed if it is not empty and
\* the scan returns, Ok with its total or the error of the flush
ScanFlushPartial(p, k) ==
    LET all   == ScanEntries(scan[p].drive)
        left  == SelectSeq(all, LAMBDA e : e.file_ref > scan[p].cursor)
        batch == [i \in 1..k |->
                    FileRow(scan[p].vid, left[i].file_ref, left[i].parent_ref,
                            left[i].name, left[i].size, left[i].modified, left[i].is_dir)]
        res   == batch_insert_files(files, batch)
    IN  IF k = 0
        THEN [files |-> files, scan |-> [scan[p] EXCEPT !.pc = "end", !.result = "ok"]]
        ELSE IF ~res.ok
        THEN [files |-> files, scan |-> [scan[p] EXCEPT !.pc = "end", !.result = "err"]]
        ELSE [files |-> res.files,
              scan |-> [scan[p] EXCEPT !.cursor = left[k].file_ref,
                                       !.pc = "end", !.result = "ok"]]

\* the orchestrator's scan at a shutdown checkpoint with the stop message waiting:
\* the checkpoint is at the head of the loop, so an entry is still to be read and
\* the batch is not full
ScanStop ==
    /\ scan["idx"].pc = "walk"
    /\ idx.shutdown_rx > 0
    /\ LET all  == ScanEntries(scan["idx"].drive)
           left == SelectSeq(all, LAMBDA e : e.file_ref > scan["idx"].cursor)
       IN  \E k \in 0..(Min({BATCH_SIZE, Len(left)}) - 1) :
             /\ files' = ScanFlushPartial("idx", k).files
             /\ scan' = [scan EXCEPT !["idx"] = ScanFlushPartial("idx", k).scan]
    /\ idx' = [idx EXCEPT !.shutdown_rx = @ - 1]
    /\ UNCHANGED <<volumes, disk, mounted, journal, mon, rec, router, now, env, dd, rs, cat>>

(* ------------------------------------------------------------------ *)
(* Orchestrator: run_indexer                                          *)
(* ------------------------------------------------------------------ *)

IdxStart ==
    /\ idx.pc = "off"
    /\ idx' = [idx EXCEPT !.pc = "run", !.todo = detect_volumes, !.status = "Running"]
    /\ UNCHANGED <<volumes, files, disk, mounted, journal, mon, scan, rec, router, now, env, dd, rs, cat>>

\* the next volume of the list: no stop message waits (try_recv gives Empty) and
\* its scan starts
IdxBegin ==
    /\ idx.pc = "run"
    /\ scan["idx"].pc = "idle"
    /\ idx.todo # <<>>
    /\ idx.shutdown_rx = 0
    /\ ScanBegin("idx", Head(idx.todo))
    /\ UNCHANGED <<files, disk, mounted, journal, mon, idx, rec, router, now, env, dd, rs, cat>>

\* an orchestrator that gives up at the first scan that fails: the faulty variant
\* of IdxNext that C24 has to tell from the code
IdxNext_stop_on_error ==
    /\ idx.pc = "run"
    /\ scan["idx"].pc = "end"
    /\ scan' = [scan EXCEPT !["idx"].pc = "idle"]
    /\ idx' = IF scan["idx"].result = "err"
              THEN [idx EXCEPT !.pc = "done"]
              ELSE [idx EXCEPT !.pc = IF Tail(idx.todo) = <<>> THEN "done" ELSE "run",
                               !.todo = Tail(idx.todo)]
    /\ UNCHANGED <<volumes, files, disk, mounted, journal, mon, rec, router, now, env, dd, rs, cat>>

\* the scan returned (Ok or Err, both only logged): on to the next volume
IdxNext ==
    /\ idx.pc = "run"
    /\ scan["idx"].pc = "end"
    /\ scan' = [scan EXCEPT !["idx"].pc = "idle"]
    /\ idx' = [idx EXCEPT !.pc = IF Tail(idx.todo) = <<>> THEN "done" ELSE "run",
                           !.todo = Tail(idx.todo)]
    /\ UNCHANGED <<volumes, files, disk, mounted, journal, mon, rec, router, now, env, dd, rs, cat>>

\* before the next volume of the list: try_recv takes the stop message and
\* run_indexer returns
IdxStop ==
    /\ idx.pc = "run"
    /\ scan["idx"].pc = "idle"
    /\ idx.todo # <<>>
    /\ idx.shutdown_rx > 0
    /\ idx' = [idx EXCEPT !.pc = "done", !.shutdown_rx = @ - 1]
    /\ UNCHANGED <<volumes, files, disk, mounted, journal, mon, scan, rec, router, now, env, dd, rs, cat>>

\* run_service after the stop control: one message goes to the orchestrator's
\* channel; the sender stays alive while run_service joins the thread
ShellStop ==
    /\ idx.pc # "off"
    /\ ~idx.shutdown_sent
    /\ idx' = [idx EXCEPT !.shutdown_rx = @ + 1, !.shutdown_sent = TRUE,
                           !.status = "StopPending"]
    /\ UNCHANGED <<volumes, files, disk, mounted, journal, mon, scan, rec, router, now, env, dd, rs, cat>>

\* run_service in Indexer::stop: handle.join() returns once run_indexer has
\* returned, and Stopped is reported
ShellJoin ==
    /\ idx.status = "StopPending"
    /\ idx.pc = "done"
    /\ idx' = [idx EXCEPT !.status = "Stopped"]
    /\ UNCHANGED <<volumes, files, disk, mounted, journal, mon, scan, rec, router, now, env, dd, rs, cat>>

(* ------------------------------------------------------------------ *)
(* FAT reconciler                                                     *)
(* ------------------------------------------------------------------ *)

\* FatReconciler::new: the FAT volumes detected and enabled; none is due at once
RecStart ==
    /\ rec.pc = "off"
    /\ LET fat == {detect_volumes[i] : i \in 1..Len(detect_volumes)} \ {NtfsDrive}
           vs  == {d \in fat : is_volume_enabled(d)}
       IN  rec' = [pc |-> "idle", vols |-> vs, drive |-> "none",
                   last_scan |-> [d \in vs |-> now], last_cleanup |-> now]
    /\ UNCHANGED <<volumes, files, disk, mounted, journal, mon, scan, idx, router, now, env, dd, rs, cat>>

\* check_and_reconcile, a due volume: its record goes to Rescanning
RecBegin ==
    /\ rec.pc = "idle"
    /\ \E d \in rec.vols :
         /\ now - rec.last_scan[d] >= ReconcileTicks
         /\ LET vol == get_volume(volumes, d)
            IN  volumes' = IF vol.id # NULL
                           THEN update_volume_state(volumes, vol.id, "rescanning", NULL)
                           ELSE volumes
         /\ rec' = [rec EXCEPT !.pc = "scan", !.drive = d]
    /\ UNCHANGED <<files, disk, mounted, journal, mon, scan, idx, router, now, env, dd, rs, cat>>

\* check_and_reconcile calls scan_fat_volume
RecScan ==
    /\ rec.pc = "scan"
    /\ scan["rec"].pc = "idle"
    /\ ScanBegin("rec", rec.drive)
    /\ UNCHANGED <<files, disk, mounted, journal, mon, idx, rec, router, now, env, dd, rs, cat>>

\* the scan returned (Ok or Err): the record of the drive goes to Online
RecEnd ==
    /\ rec.pc = "scan"
    /\ scan["rec"].pc = "end"
    /\ LET vol == get_volume(volumes, rec.drive)
       IN  volumes' = IF vol.id # NULL
                      THEN update_volume_state(volumes, vol.id, "online", NULL)
                      ELSE volumes
    /\ scan' = [scan EXCEPT !["rec"].pc = "idle"]
    /\ rec' = [rec EXCEPT !.pc = "idle", !.drive = "none", !.last_scan[rec.drive] = now]
    /\ UNCHANGED <<files, disk, mounted, journal, mon, idx, router, now, env, dd, rs, cat>>

\* fat_reconciler_loop, once per CLEANUP_INTERVAL: the sweep of the offline volumes
RecSweep ==
    /\ rec.pc = "idle"
    /\ now - rec.last_cleanup >= CleanupTicks
    /\ files' = cleanup_old_offline_volumes(volumes, files, RetentionTicks, now).files
    /\ rec' = [rec EXCEPT !.last_cleanup = now]
    /\ UNCHANGED <<volumes, disk, mounted, journal, mon, scan, idx, router, now, env, dd, rs, cat>>

(* ------------------------------------------------------------------ *)
(* Event router: mount and unmount handlers                           *)
(* ------------------------------------------------------------------ *)

\* get_volume_serial formatted as the handler does: "" when the OS reports none
SerialStr == IF mounted = "none" THEN "" ELSE mounted

handle_volume_mount(vols, drive, serial_str, t) ==
    LET vol == get_volume(vols, drive)
    IN  IF ~is_volume_enabled(drive) THEN vols
        ELSE IF vol.id = NULL THEN vols
        ELSE IF vol.volume_serial # serial_str /\ serial_str # ""
        THEN update_volume_state(vols, vol.id, "offline", t)
        ELSE update_volume_state(vols, vol.id, "online", NULL)

\* an unmount handler that writes Offline without its timestamp: the faulty
\* variant of handle_volume_unmount that C18 has to tell from the code
handle_volume_unmount_unset_since(vols, drive, t) ==
    IF get_volume(vols, drive).id = NULL THEN vols
    ELSE update_volume_state(vols, get_volume(vols, drive).id, "offline", NULL)

handle_volume_unmount(vols, drive, t) ==
    LET vol == get_volume(vols, drive)
    IN  IF vol.id = NULL THEN vols
        ELSE update_volume_state(vols, vol.id, "offline", t)

\* a router that calls the mount handler as soon as the event is received: the
\* faulty variant of the loop that C31 has to tell from the code
RouterRecv_mount_at_once ==
    /\ router.events # <<>>
    /\ IF Head(router.events) = "Mounted"
       THEN /\ router' = [events |-> Tail(router.events), pending |-> NULL]
            /\ volumes' = handle_volume_mount(volumes, FatDrive, SerialStr, now)
       ELSE /\ router' = [events |-> Tail(router.events), pending |-> NULL]
            /\ volumes' = handle_volume_unmount(volumes, FatDrive, now)
    /\ UNCHANGED <<files, disk, mounted, journal, mon, scan, idx, rec, now, env, dd, rs, cat>>

\* the router takes an event from its channel
RouterRecv ==
    /\ router.events # <<>>
    /\ IF Head(router.events) = "Mounted"
       THEN /\ router' = [events |-> Tail(router.events), pending |-> now]
            /\ volumes' = volumes
       ELSE /\ router' = [events |-> Tail(router.events), pending |-> NULL]
            /\ volumes' = handle_volume_unmount(volumes, FatDrive, now)
    /\ UNCHANGED <<files, disk, mounted, journal, mon, scan, idx, rec, now, env, dd, rs, cat>>

\* a debounced mount is ready
RouterReady ==
    /\ router.pending # NULL
    /\ now - router.pending >= DebounceTicks
    /\ router' = [router EXCEPT !.pending = NULL]
    /\ volumes' = handle_volume_mount(volumes, FatDrive, SerialStr, now)
    /\ UNCHANGED <<files, disk, mounted, journal, mon, scan, idx, rec, now, env, dd, rs, cat>>

(* ------------------------------------------------------------------ *)
(* USN monitor thread: usn_monitor_loop                               *)
(* ------------------------------------------------------------------ *)

\* start_usn_monitors reads the saved position; the thread builds the monitor
\* (resume or new) and looks the volume id up
MonStart ==
    /\ mon.pc = "off"
    /\ LET vol   == get_volume(volumes, NtfsDrive)
           saved == IF vol.id = NULL
                    THEN [some |-> FALSE, last_usn |-> NULL, journal_id |-> NULL]
                    ELSE get_volume_usn(volumes, vol.id)
           m     == IF saved.some
                    THEN resume(saved.last_usn, saved.journal_id, Metadata(journal))
                    ELSE new(Metadata(journal))
       IN  IF ~m.ok
           THEN /\ mon' = [MonOff EXCEPT !.pc = "exited", !.report = m.err]
                /\ scan' = trigger_background_rescan(scan, NtfsDrive)
           ELSE /\ scan' = scan
                /\ mon' = IF vol.id = NULL
                          THEN [MonOff EXCEPT !.pc = "exited"]
                          ELSE [MonOff EXCEPT !.pc = "poll", !.last_usn = m.last_usn,
                                              !.journal_id = m.journal_id,
                                              !.volume_id = vol.id]
    /\ UNCHANGED <<volumes, files, disk, mounted, journal, idx, rec, router, now, env, dd, rs, cat>>

\* one cycle of the loop: poll_changes; on an error the rescan is requested and
\* the thread ends; else the changes read are deduplicated, handed to
\* apply_changes_batch (its error is only logged) and the position is saved
MonCycle ==
    /\ mon.pc = "poll"
    /\ LET res == poll_changes(mon, journal)
       IN  IF ~res.ok
           THEN /\ mon' = [mon EXCEPT !.pc = "exited", !.report = res.err]
                /\ scan' = trigger_background_rescan(scan, NtfsDrive)
                /\ UNCHANGED <<volumes, files>>
           ELSE /\ res.changes # <<>>
                /\ scan' = scan
                /\ \E deduped \in deduplicate_changes(res.changes), db_ok \in BOOLEAN :
                     LET out == apply_changes_batch(files, mon.volume_id, deduped, db_ok)
                     IN  /\ files' = out.files
                         /\ mon' = [mon EXCEPT !.last_usn = res.last_usn,
                                               !.applied = IF out.ok THEN "ok" ELSE "err"]
                /\ volumes' = update_volume_usn(volumes, mon.volume_id,
                                                res.last_usn, mon.journal_id)
    /\ UNCHANGED <<disk, mounted, journal, idx, rec, router, now, env, dd, rs, cat>>

(* ------------------------------------------------------------------ *)
(* The system                                                         *)
(* ------------------------------------------------------------------ *)

JournalNext == FsChange \/ JournalWrap \/ JournalRecreate

MountNext == OsUnmount \/ OsMount \/ Tick

IndexerNext == IdxStart \/ IdxBegin \/ IdxNext \/ ScanStep("idx")

MonitorNext == MonStart \/ MonCycle

ReconcilerNext == RecStart \/ RecBegin \/ RecScan \/ RecEnd \/ ScanStep("rec") \/ RecSweep

RouterNext == RouterRecv \/ RouterReady

\* the service with its orchestrator and the USN monitor of the NTFS volume, on a
\* machine whose NTFS volume and change journal are in use
Next == JournalNext \/ ServiceRestart \/ IndexerNext \/ MonitorNext

Spec == Init /\ [][Next]_vars

\* the same service while it keeps running: the threads of the program are
\* scheduled again and again, the environment owes nothing
LiveNext == JournalNext \/ IndexerNext \/ MonitorNext

\* a scan that walks keeps reading and flushing until it ends (the fairness of
\* ScanStep, which is enabled exactly while the scan walks)
ScanProgress == []<>(scan["idx"].pc # "walk")

LiveSpec ==
    /\ Init /\ [][LiveNext]_vars
    /\ WF_vars(IdxStart \/ IdxBegin \/ IdxNext)
    /\ WF_vars(MonitorNext)
    /\ ScanProgress

\* the service with its orchestrator, the FAT reconciler and the event router, on
\* a machine whose removable drive is in use
RemovableNext ==
    MountNext \/ ServiceRestart \/ IndexerNext \/ ReconcilerNext \/ RouterNext

SpecRemovable == Init /\ [][RemovableNext]_vars

\* the same service while it keeps running: its threads are scheduled again and
\* again and the clock moves on; the OS owes no event
LiveRemovableNext == MountNext \/ IndexerNext \/ ReconcilerNext \/ RouterNext

\* a scan of the reconciler that walks keeps reading and flushing until it ends
RecScanProgress == []<>(scan["rec"].pc # "walk")

LiveRemovable ==
    /\ Init /\ [][LiveRemovableNext]_vars
    /\ WF_vars(RecStart)
    /\ WF_vars(RecBegin \/ RecScan \/ RecEnd)
    /\ WF_vars(RecSweep)
    /\ WF_vars(Tick)
    /\ RecScanProgress

\* the service while the files of the NTFS volume change and the stop control
\* arrives at some point of the orchestrator's pass
ShutdownNext == FsChange \/ IndexerNext \/ ShellStop \/ IdxStop \/ ScanStop \/ ShellJoin

SpecShutdown == Init /\ [][ShutdownNext]_vars

\* the service started on an empty catalog under any configuration of the
\* volumes: each drive enabled, disabled or without an entry
ConfigInit ==
    /\ \E en \in SUBSET Drives : SysStart(StartEnv(en, FALSE))
    /\ dd = DdOff /\ rs = RsOff /\ cat = CatOff

SpecConfig == ConfigInit /\ [][LiveRemovableNext]_vars

(* ------------------------------------------------------------------ *)
(* Faults of the database: a statement or open_database fails         *)
(* ------------------------------------------------------------------ *)

\* a statement of the scan of process p fails (disk full, database locked): the
\* open chunk is rolled back and the scan returns Err
ScanFail(p) ==
    /\ scan[p].pc = "walk"
    /\ Cardinality(env.faults) < MaxFaults
    /\ scan' = [scan EXCEPT ![p].pc = "end", ![p].result = "err"]
    /\ env' = [env EXCEPT !.faults = @ \cup {[at |-> p, drive |-> scan[p].drive]}]
    /\ UNCHANGED <<volumes, files, disk, mounted, journal, mon, idx, rec, router, now, dd, rs, cat>>

\* the router takes an unmount event and handle_volume_unmount returns Err
\* (open_database fails): the error is logged
UnmountFail ==
    /\ router.events # <<>>
    /\ Head(router.events) = "Unmounted"
    /\ Cardinality(env.faults) < MaxFaults
    /\ router' = [events |-> Tail(router.events), pending |-> NULL]
    /\ env' = [env EXCEPT !.faults = @ \cup {[at |-> "unmount", drive |-> FatDrive]}]
    /\ UNCHANGED <<volumes, files, disk, mounted, journal, mon, scan, idx, rec, now, dd, rs, cat>>

\* a debounced mount is ready and handle_volume_mount returns Err: the error is
\* logged
MountFail ==
    /\ router.pending # NULL
    /\ now - router.pending >= DebounceTicks
    /\ Cardinality(env.faults) < MaxFaults
    /\ router' = [router EXCEPT !.pending = NULL]
    /\ env' = [env EXCEPT !.faults = @ \cup {[at |-> "mount", drive |-> FatDrive]}]
    /\ UNCHANGED <<volumes, files, disk, mounted, journal, mon, scan, idx, rec, now, dd, rs, cat>>

\* the service on a machine with the card reader, all three volumes enabled,
\* while the database fails now and then; the run is shorter than the cleanup
\* interval
FaultInit ==
    /\ SysStart(StartEnv(EnabledVolumes \cup {CardDrive}, TRUE))
    /\ dd = DdOff /\ rs = RsOff /\ cat = CatOff

FaultNext ==
    \/ MountNext \/ IndexerNext \/ RouterNext
    \/ RecStart \/ RecBegin \/ RecScan \/ RecEnd \/ ScanStep("rec")
    \/ ScanFail("idx") \/ ScanFail("rec") \/ UnmountFail \/ MountFail

SpecFaults == FaultInit /\ [][FaultNext]_vars

\* the same with run_service scheduled: it sends the stop and returns from the
\* join as soon as it can; nothing is assumed of the worker thread
LiveShutdown ==
    /\ Init /\ [][ShutdownNext]_vars
    /\ WF_vars(ShellStop)
    /\ WF_vars(ShellJoin)

(* ------------------------------------------------------------------ *)
(* The event router alone, with its shutdown channel                  *)
(* ------------------------------------------------------------------ *)

\* the thread of start_volume_event_handler runs; the catalog holds the record of
\* the removable drive as a finished scan leaves it, and a medium is in the drive
\* or not
RouterInit ==
    /\ \E st \in {"online", "offline"} :
         volumes = update_volume_state(insert_volume({}, FatDrive, "", "FAT", 1).vols, 1, st,
                                       IF st = "offline" THEN 1 ELSE NULL)
    /\ files = EmptyBag /\ disk = {}
    /\ mounted \in Serials \cup {"none"}
    /\ journal = [journal_id |-> 1, lowest_valid_usn |-> 1, next_usn |-> 1, recs |-> <<>>]
    /\ mon = MonOff
    /\ scan = [p \in {"idx", "rec"} |-> ScanIdle]
    /\ idx = IdxOff /\ rec = RecOff /\ router = RouterOff
    /\ now = 1
    /\ env = StartEnv(EnabledVolumes, FALSE)
    /\ dd = DdOff /\ cat = CatOff
    /\ rs = [RsOff EXCEPT !.pc = "router"]

\* the OS broadcasts the arrival of the medium that is in the drive once more
OsAnnounce ==
    /\ env.events < MaxEvents
    /\ mounted # "none"
    /\ router' = [router EXCEPT !.events = Append(@, "Mounted")]
    /\ env' = [env EXCEPT !.events = @ + 1]
    /\ UNCHANGED <<volumes, files, disk, mounted, journal, mon, scan, idx, rec, now, dd, rs, cat>>

\* the loop takes an event from the channel
RouterTakes == rs.pc = "router" /\ RouterRecv

\* the loop finds the debounced mount ready
RouterHandles == rs.pc = "router" /\ RouterReady

\* try_recv on the shutdown channel returns the signal or Disconnected: the
\* thread returns, whatever is pending
RouterShutdown ==
    /\ rs.pc = "router"
    /\ rs' = [rs EXCEPT !.pc = "returned"]
    /\ UNCHANGED <<sysvars, dd, cat>>

RouterLoopNext ==
    OsUnmount \/ OsMount \/ OsAnnounce \/ Tick \/ RouterTakes \/ RouterHandles \/ RouterShutdown

\* the loop is a running thread and the clock goes on
LiveRouter ==
    /\ RouterInit /\ [][RouterLoopNext]_vars
    /\ WF_vars(RouterTakes)
    /\ WF_vars(RouterHandles)
    /\ WF_vars(Tick)

(* ------------------------------------------------------------------ *)
(* The FAT reconciler thread and its shutdown channel                 *)
(* ------------------------------------------------------------------ *)

\* start_fat_reconciler: the thread runs; shutdown_rx: the signals waiting in its
\* channel; sent: the caller has sent its signal and keeps the sender
RecStopInit ==
    /\ SysStart(StartEnv(EnabledVolumes \cup {CardDrive}, TRUE))
    /\ dd = DdOff
    /\ cat = CatOff
    /\ rs = [pc |-> "running", shutdown_rx |-> 0, sent |-> FALSE]

\* the steps of the thread while it has not returned; a drive is taken up only
\* past the shutdown check of the pass, that is, with no signal waiting
RecThread ==
    /\ rs.pc = "running"
    /\ \/ RecStart
       \/ rs.shutdown_rx = 0 /\ RecBegin
       \/ RecScan \/ RecEnd \/ ScanStep("rec") \/ RecSweep

\* the caller sends one signal and then joins the thread
RecStopSend ==
    /\ ~rs.sent
    /\ rs' = [rs EXCEPT !.shutdown_rx = @ + 1, !.sent = TRUE]
    /\ UNCHANGED <<sysvars, dd, cat>>

\* try_recv at the head of fat_reconciler_loop takes the signal: the thread
\* returns
RecLoopStop ==
    /\ rs.pc = "running"
    /\ rec.pc = "idle"
    /\ rs.shutdown_rx > 0
    /\ rs' = [rs EXCEPT !.pc = "returned", !.shutdown_rx = @ - 1]
    /\ UNCHANGED <<sysvars, dd, cat>>

\* try_recv in the loop over the drives of check_and_reconcile takes the signal:
\* the pass returns Ok(()) and the loop goes on
RecPassStop ==
    /\ rs.pc = "running"
    /\ rec.pc = "idle"
    /\ rec.vols # {}
    /\ rs.shutdown_rx > 0
    /\ rs' = [rs EXCEPT !.shutdown_rx = @ - 1]
    /\ UNCHANGED <<sysvars, dd, cat>>

\* try_recv at a checkpoint of scan_fat_volume takes the signal: the batch is
\* flushed and the scan returns Ok to check_and_reconcile
RecScanStop ==
    /\ rs.pc = "running"
    /\ scan["rec"].pc = "walk"
    /\ rs.shutdown_rx > 0
    /\ LET all  == ScanEntries(scan["rec"].drive)
           left == SelectSeq(all, LAMBDA e : e.file_ref > scan["rec"].cursor)
       IN  \E k \in 0..(Min({BATCH_SIZE, Len(left)}) - 1) :
             /\ files' = ScanFlushPartial("rec", k).files
             /\ scan' = [scan EXCEPT !["rec"] = ScanFlushPartial("rec", k).scan]
    /\ rs' = [rs EXCEPT !.shutdown_rx = @ - 1]
    /\ UNCHANGED <<volumes, disk, mounted, journal, mon, idx, rec, router, now, env, dd, cat>>

RecStopNext ==
    Tick \/ RecThread \/ RecStopSend \/ RecLoopStop \/ RecPassStop \/ RecScanStop

\* the thread is scheduled: each of its steps that stays possible is taken
LiveRecStop ==
    /\ RecStopInit /\ [][RecStopNext]_vars
    /\ WF_vars(RecThread)
    /\ WF_vars(RecLoopStop)
    /\ WF_vars(Tick)

(* ------------------------------------------------------------------ *)
(* reason_to_change_type on the reason bitmaps                        *)
(* ------------------------------------------------------------------ *)

\* the bits a reason is made of: the four the function tests, and data overwrite,
\* data extend and bit 30, which it does not
ReasonBits == {1, 2, USN_REASON_FILE_CREATE, USN_REASON_FILE_DELETE,
               USN_REASON_RENAME_OLD_NAME, USN_REASON_RENAME_NEW_NAME, 2 ^ 30}

RECURSIVE SumOf(_)
SumOf(S) == IF S = {} THEN 0 ELSE LET x == CHOOSE x \in S : TRUE IN x + SumOf(S \ {x})

\* the reason bitmaps: every combination of the bits
Reasons == {SumOf(S) : S \in SUBSET ReasonBits}

\* a journal record with some reason is read
ReasonInit ==
    /\ SysInit
    /\ dd = DdOff
    /\ cat = CatOff
    /\ \E reason \in Reasons : rs = [pc |-> "record", reason |-> reason, change_type |-> "none"]

\* poll_changes classifies the reason of the record
ReasonStep ==
    /\ rs.pc = "record"
    /\ rs' = [rs EXCEPT !.pc = "classified", !.change_type = reason_to_change_type(rs.reason)]
    /\ UNCHANGED <<sysvars, dd, cat>>

SpecReason == ReasonInit /\ [][ReasonStep]_vars

(* ------------------------------------------------------------------ *)
(* Successive polls of a growing journal                              *)
(* ------------------------------------------------------------------ *)

\* a monitor built by UsnMonitor::new; start: its first cursor; emitted: the
\* changes returned so far; errors: records the iterator failed on so far
PollInit ==
    /\ SysInit
    /\ dd = DdOff
    /\ cat = CatOff
    /\ LET m == new(Metadata(journal))
       IN  rs = [pc |-> "poll", last_usn |-> m.last_usn, journal_id |-> m.journal_id,
                 start |-> m.last_usn, emitted |-> <<>>, errors |-> 0]

\* one poll_changes; the iterator fails on the records in unreadable
PollRead ==
    /\ rs.pc = "poll"
    /\ \E unreadable \in SUBSET {r.usn : r \in {journal.recs[i] : i \in DOMAIN journal.recs}} :
         /\ \A u \in unreadable : u > rs.last_usn
         /\ rs.errors + Cardinality(unreadable) <= MaxReadErrors
         /\ LET out == poll_changes_reading(rs, journal, unreadable)
            IN  /\ out.ok
                /\ rs' = [rs EXCEPT !.last_usn = out.last_usn,
                                    !.emitted = @ \o out.changes,
                                    !.errors = @ + Cardinality(unreadable)]
    /\ UNCHANGED <<sysvars, dd, cat>>

PollNext == FsChange \/ PollRead

SpecPoll == PollInit /\ [][PollNext]_vars

(* ------------------------------------------------------------------ *)
(* deduplicate_changes and apply_changes_batch on every batch         *)
(* ------------------------------------------------------------------ *)

\* the changes a journal record can be turned into
Changes ==
    {UsnChange(r, pl.parent_ref, pl.name, t) : r \in FileRefs, pl \in Places, t \in ChangeTypes}

\* the batches of at most n changes
Batches(n) == UNION {[1..k -> Changes] : k \in 0..n}

\* a polling batch and a catalog are drawn: the catalog is empty or holds file 1
DedupInit ==
    /\ SysInit
    /\ rs = RsOff
    /\ cat = CatOff
    /\ \E batch \in Batches(MaxBatch), had \in BOOLEAN :
         dd = [pc |-> "drawn", batch |-> batch, deduped |-> <<>>, log |-> <<>>,
               before |-> IF had THEN SetToBag({FileRow(1, 1, 5, "a", 1, NULL, FALSE)})
                                 ELSE EmptyBag,
               after |-> EmptyBag]

DedupStep ==
    /\ dd.pc = "drawn"
    /\ \E deduped \in deduplicate_changes(dd.batch) :
         dd' = [dd EXCEPT !.pc = "deduped", !.deduped = deduped]
    /\ UNCHANGED <<sysvars, rs, cat>>

\* apply_changes_batch on the deduplicated batch; log: the changes whose
\* statement was executed, in the order of execution
DedupApply ==
    /\ dd.pc = "deduped"
    /\ \E db_ok \in BOOLEAN :
         LET out == apply_changes_batch(dd.before, 1, dd.deduped, db_ok)
         IN  dd' = [dd EXCEPT !.pc = "applied", !.after = out.files,
                              !.log = IF out.ok THEN dd.deduped ELSE <<>>]
    /\ UNCHANGED <<sysvars, rs, cat>>

DedupNext == DedupStep \/ DedupApply

SpecDedup == DedupInit /\ [][DedupNext]_vars

(* ------------------------------------------------------------------ *)
(* UsnMonitor::resume on every saved position and journal             *)
(* ------------------------------------------------------------------ *)

\* journal ids drawn as inputs of resume
JournalIds == 1..2

\* a saved position and the metadata of a journal are drawn
ResumeInit ==
    /\ SysInit
    /\ dd = DdOff
    /\ cat = CatOff
    /\ \E last_usn \in 0..MaxUsnIn, journal_id \in JournalIds, cur \in JournalIds,
          lowest \in 0..MaxUsnIn, next \in 0..MaxUsnIn :
         /\ lowest <= next
         /\ rs = [pc |-> "drawn", last_usn |-> last_usn, journal_id |-> journal_id,
                  metadata |-> [journal_id |-> cur, first_usn |-> lowest,
                                lowest_valid_usn |-> lowest, next_usn |-> next],
                  out |-> [ok |-> FALSE, err |-> "none"]]

ResumeStep ==
    /\ rs.pc = "drawn"
    /\ rs' = [rs EXCEPT !.pc = "done",
                        !.out = resume(rs.last_usn, rs.journal_id, rs.metadata)]
    /\ UNCHANGED <<sysvars, dd, cat>>

SpecResume == ResumeInit /\ [][ResumeStep]_vars

(* ------------------------------------------------------------------ *)
(* The wrap test of resume and poll_changes on every saved cursor     *)
(* ------------------------------------------------------------------ *)

\* the values of an i64 cursor, at the width of the model
SignedUsns == (0 - 2 ^ (UsnBits - 1))..(2 ^ (UsnBits - 1) - 1)

\* a journal whose id is the saved one, with its records from lowest to next - 1,
\* and a saved cursor anywhere in the i64 range
WrapInit ==
    /\ volumes = {} /\ files = EmptyBag /\ disk = {} /\ mounted = "none"
    /\ mon = MonOff
    /\ scan = [p \in {"idx", "rec"} |-> ScanIdle]
    /\ idx = IdxOff /\ rec = RecOff /\ router = RouterOff
    /\ now = 1
    /\ env = StartEnv(EnabledVolumes, FALSE)
    /\ dd = DdOff /\ cat = CatOff
    /\ \E last_usn \in SignedUsns, lowest \in 0..MaxUsnIn, next \in 0..MaxUsnIn :
         /\ lowest <= next
         /\ journal = [journal_id |-> 1, lowest_valid_usn |-> lowest, next_usn |-> next,
                       recs |-> [i \in 1..(next - lowest) |->
                                   [usn |-> lowest + i - 1,
                                    change |-> UsnChange(1, 5, "a", "Modify")]]]
         /\ rs = [pc |-> "drawn", last_usn |-> last_usn, journal_id |-> 1,
                  metadata |-> Metadata(journal),
                  out |-> [ok |-> FALSE, err |-> "none"]]

\* UsnMonitor::resume is called with the saved cursor
WrapResume ==
    /\ rs.pc = "drawn"
    /\ rs' = [rs EXCEPT !.pc = "resume",
                        !.out = resume(rs.last_usn, rs.journal_id, rs.metadata)]
    /\ UNCHANGED <<sysvars, dd, cat>>

\* poll_changes is called on a monitor that holds the saved cursor
WrapPoll ==
    /\ rs.pc = "drawn"
    /\ rs' = [rs EXCEPT !.pc = "poll_changes",
                        !.out = poll_changes([last_usn |-> rs.last_usn,
                                              journal_id |-> rs.journal_id], journal)]
    /\ UNCHANGED <<sysvars, dd, cat>>

WrapNext == WrapResume \/ WrapPoll

SpecWrap == WrapInit /\ [][WrapNext]_vars

(* ------------------------------------------------------------------ *)
(* The operations of the files table in any sequence                  *)
(* ------------------------------------------------------------------ *)

\* volume ids the operations are called with
VolumeIds == 1..2

\* the row a bulk scan of volume v writes for the entry with reference r
ScanRow(v, r) == FileRow(v, r, 5, "a", 1, NULL, FALSE)

\* changes the monitor hands to apply_changes_batch: a file is created as "a",
\* renamed to "b" under another parent, written, deleted
CatChanges ==
    UNION {{UsnChange(r, 5, "a", "Create"), UsnChange(r, 6, "b", "Rename"),
            UsnChange(r, 5, "b", "Modify"), UsnChange(r, 5, "a", "Delete")} : r \in FileRefs}

\* a bulk scan hands rows of its volume to batch_insert_files
CatInsert ==
    /\ \E v \in VolumeIds, k \in 1..MaxInsertLen : \E refs \in [1..k -> FileRefs] :
         LET res == batch_insert_files(files, [i \in 1..k |-> ScanRow(v, refs[i])])
         IN  /\ files' = res.files
             /\ cat' = [op |-> "batch_insert_files", ok |-> res.ok, created |-> FALSE]
    /\ UNCHANGED <<volumes, disk, mounted, journal, mon, scan, idx, rec, router, now, env, dd, rs>>

\* created: the last statement of the batch was a Create and was executed
CatApply ==
    /\ \E v \in VolumeIds, k \in 1..MaxApplyLen, db_ok \in BOOLEAN :
       \E changes \in [1..k -> CatChanges] :
         LET res == apply_changes_batch(files, v, changes, db_ok)
         IN  /\ files' = res.files
             /\ cat' = [op |-> "apply_changes_batch", ok |-> res.ok,
                        created |-> res.ok /\ changes[k].change_type = "Create"]
    /\ UNCHANGED <<volumes, disk, mounted, journal, mon, scan, idx, rec, router, now, env, dd, rs>>

CatDelete ==
    /\ \E v \in VolumeIds :
         /\ files' = delete_volume_files(files, v).files
         /\ cat' = [op |-> "delete_volume_files", ok |-> TRUE, created |-> FALSE]
    /\ UNCHANGED <<volumes, disk, mounted, journal, mon, scan, idx, rec, router, now, env, dd, rs>>

CatNext == CatInsert \/ CatApply \/ CatDelete

SpecCatalog == Init /\ [][CatNext]_vars

(* ------------------------------------------------------------------ *)
(* apply_changes_batch on every table, batch and failure              *)
(* ------------------------------------------------------------------ *)

\* rows as the scans leave them: files and directories with a size and a time
ApplyRows == {FileRow(v, r, 5, "a", 1, 2, d) : v \in VolumeIds, r \in FileRefs, d \in BOOLEAN}

\* the files tables that satisfy UNIQUE(volume_id, file_ref)
ApplyTables ==
    {SetToBag(S) : S \in {T \in SUBSET ApplyRows :
                            /\ Cardinality(T) <= MaxTableRows
                            /\ \A x, y \in T :
                                 (x.volume_id = y.volume_id /\ x.file_ref = y.file_ref) => x = y}}

\* the changes of a batch: each names a place other than the one of the rows
StatementChanges == {UsnChange(r, 6, "b", t) : r \in FileRefs, t \in ChangeTypes}

\* a files table, a volume id and a batch of changes are drawn
ApplyInit ==
    /\ volumes = insert_volume(insert_volume({}, NtfsDrive, "", "NTFS", 1).vols,
                                FatDrive, "", "FAT", 1).vols
    /\ files \in ApplyTables
    /\ disk = {} /\ mounted = "none"
    /\ journal = [journal_id |-> 1, lowest_valid_usn |-> 1, next_usn |-> 1, recs |-> <<>>]
    /\ mon = MonOff
    /\ scan = [p \in {"idx", "rec"} |-> ScanIdle]
    /\ idx = IdxOff /\ rec = RecOff /\ router = RouterOff
    /\ now = 1
    /\ env = StartEnv(EnabledVolumes, FALSE)
    /\ dd = DdOff /\ rs = RsOff
    /\ \E v \in VolumeIds, k \in 0..MaxStatements : \E changes \in [1..k -> StatementChanges] :
         cat = [op |-> "drawn", volume_id |-> v, changes |-> changes, failed |-> {},
                before |-> files, ok |-> TRUE, count |-> NULL]

\* apply_changes_batch is called once; failed: the positions of the statements
\* that return Err; count: the Ok(applied) it returns
ApplyRun ==
    /\ cat.op = "drawn"
    /\ \E failed \in SUBSET (1..Len(cat.changes)), db_ok \in BOOLEAN :
         /\ Cardinality(failed) <= MaxFaults
         /\ LET res == apply_changes_batch_failing(files, cat.volume_id, cat.changes,
                                                   failed, db_ok)
            IN  /\ files' = res.files
                /\ cat' = [cat EXCEPT !.op = "apply_changes_batch", !.failed = failed,
                                      !.ok = res.ok,
                                      !.count = IF res.ok THEN res.applied ELSE NULL]
    /\ UNCHANGED <<volumes, disk, mounted, journal, mon, scan, idx, rec, router, now, env, dd, rs>>

SpecApply == ApplyInit /\ [][ApplyRun]_vars

(* ------------------------------------------------------------------ *)
(* One operation of the files table on every table and argument       *)
(* ------------------------------------------------------------------ *)

\* rows handed to batch_insert_files: FileEntry.file_ref is an Option, None is
\* stored as NULL
OpRows == {FileRow(v, r, 5, "a", 1, NULL, FALSE) : v \in VolumeIds, r \in FileRefs \cup {NULL}}

\* the files tables an operation is called on: every row once
OpTables == {SetToBag(S) : S \in {T \in SUBSET OpRows : Cardinality(T) <= MaxTableRows}}

\* the catalog holds the records of both drives and a drawn files table
FileOpsInit ==
    /\ volumes = insert_volume(insert_volume({}, NtfsDrive, "", "NTFS", 1).vols,
                                FatDrive, "", "FAT", 1).vols
    /\ files \in OpTables
    /\ disk = {} /\ mounted = "none"
    /\ journal = [journal_id |-> 1, lowest_valid_usn |-> 1, next_usn |-> 1, recs |-> <<>>]
    /\ mon = MonOff
    /\ scan = [p \in {"idx", "rec"} |-> ScanIdle]
    /\ idx = IdxOff /\ rec = RecOff /\ router = RouterOff
    /\ now = 1
    /\ env = StartEnv(EnabledVolumes, FALSE)
    /\ dd = DdOff /\ rs = RsOff
    /\ cat = [op |-> "drawn", rows |-> <<>>, volume_id |-> NULL, before |-> files,
              ok |-> TRUE, count |-> 0]

\* batch_insert_files is called once; count: the Ok(total_inserted) it returns
FileOpsInsert ==
    /\ cat.op = "drawn"
    /\ \E k \in 0..MaxOpLen : \E rows \in [1..k -> OpRows] :
         LET res == batch_insert_files(files, rows)
         IN  /\ files' = res.files
             /\ cat' = [op |-> "batch_insert_files", rows |-> rows, volume_id |-> NULL,
                        before |-> files, ok |-> res.ok,
                        count |-> IF res.ok THEN res.inserted ELSE NULL]
    /\ UNCHANGED <<volumes, disk, mounted, journal, mon, scan, idx, rec, router, now, env, dd, rs>>

\* delete_volume_files is called once; count: the Ok(deleted) it returns
FileOpsDelete ==
    /\ cat.op = "drawn"
    /\ \E v \in VolumeIds :
         LET res == delete_volume_files(files, v)
         IN  /\ files' = res.files
             /\ cat' = [op |-> "delete_volume_files", rows |-> <<>>, volume_id |-> v,
                        before |-> files, ok |-> TRUE, count |-> res.deleted]
    /\ UNCHANGED <<volumes, disk, mounted, journal, mon, scan, idx, rec, router, now, env, dd, rs>>

FileOpsNext == FileOpsInsert \/ FileOpsDelete

SpecFileOps == FileOpsInit /\ [][FileOpsNext]_vars

(* ------------------------------------------------------------------ *)
(* reconstruct_path on every table of parent links                    *)
(* ------------------------------------------------------------------ *)

\* the record numbers of the drawn rows: two files and the root directory
PathRefs == FileRefs \cup {MftRoot.file_ref}
\* their names: the two root markers and two proper names
PathNames == {"", ".", "a", "b"}

\* the tables of volume v: at most one row per record number (the files table is
\* UNIQUE on volume_id, file_ref), any parent link and any name
PathTables(v, names) ==
    LET absent == [file_ref |-> NULL]
        choice == [PathRefs -> {absent} \cup
                      [file_ref : {0}, parent_ref : PathRefs \cup {NULL}, name : names]]
    IN  {SetToBag({FileRow(v, r, c[r].parent_ref, c[r].name, 0, NULL, TRUE) :
                      r \in {x \in PathRefs : c[x] # absent}}) : c \in choice}

\* the catalog holds a table of volume 1 and at most one row of volume 2
PathInit ==
    /\ volumes = insert_volume(insert_volume({}, NtfsDrive, "", "NTFS", 1).vols,
                                FatDrive, "", "FAT", 1).vols
    /\ \E t1 \in PathTables(1, PathNames), t2 \in PathTables(2, {"c"}) :
         /\ BagCardinality(t2) <= 1
         /\ files = t1 (+) t2
    /\ disk = {} /\ mounted = "none"
    /\ journal = [journal_id |-> 1, lowest_valid_usn |-> 1, next_usn |-> 1, recs |-> <<>>]
    /\ mon = MonOff
    /\ scan = [p \in {"idx", "rec"} |-> ScanIdle]
    /\ idx = IdxOff /\ rec = RecOff /\ router = RouterOff
    /\ now = 1
    /\ env = StartEnv(EnabledVolumes, FALSE)
    /\ dd = DdOff /\ rs = RsOff
    /\ cat = [op |-> "drawn", volume_id |-> NULL, file_ref |-> NULL,
              returns |-> TRUE, path |-> <<>>]

\* reconstruct_path is called for a file of the drawn table
PathLookup ==
    /\ cat.op = "drawn"
    /\ \E v \in VolumeIds, r \in PathRefs :
         LET res == reconstruct_path(files, v, r)
         IN  cat' = [op |-> "reconstruct_path", volume_id |-> v, file_ref |-> r,
                     returns |-> res.returns, path |-> res.path]
    /\ UNCHANGED <<volumes, files, disk, mounted, journal, mon, scan, idx, rec, router, now, env, dd, rs>>

SpecPath == PathInit /\ [][PathLookup]_vars

(* ------------------------------------------------------------------ *)
(* Properties of deduplicate_changes (SpecDedup)                      *)
(* ------------------------------------------------------------------ *)

\* positions of the changes for file_ref x in the output of the dedup
OutOf(out, x) == {i \in 1..Len(out) : out[i].file_ref = x}

\* C1: for every batch and every file_ref x, if the earliest change for x in the
\* batch is a Create and the latest change for x is a Delete, the output of
\* deduplicate_changes holds no change for x, whatever lies between the two.
C1_CreateThenDeleteDropped ==
    dd.pc = "deduped" =>
        \A x \in FileRefs :
            LET pos == PosOf(dd.batch, x)
            IN  ( /\ pos # {}
                  /\ dd.batch[Min(pos)].change_type = "Create"
                  /\ dd.batch[Max(pos)].change_type = "Delete" )
                => OutOf(dd.deduped, x) = {}

C7_AppliedInJournalOrder ==
    dd.pc = "applied" =>
        \A i, j \in 1..Len(dd.log) :
            i < j => Max(PosOf(dd.batch, dd.log[i].file_ref))
                       < Max(PosOf(dd.batch, dd.log[j].file_ref))

(* ------------------------------------------------------------------ *)
(* Properties of UsnMonitor::resume (SpecResume)                      *)
(* ------------------------------------------------------------------ *)

StoredRow == get_volume(volumes, NtfsDrive)
StoredUsn == IF StoredRow.id = NULL THEN NULL ELSE StoredRow.last_usn
StoredJournalId == IF StoredRow.id = NULL THEN NULL ELSE StoredRow.usn_journal_id

\* a bulk scan is running on drive d in the table of scans sc
Scanning(sc, d) == \E p \in DOMAIN sc : sc[p].pc = "walk" /\ sc[p].drive = d

JournalErrors == {"JournalWrapped", "JournalRecreated"}

\* C3: from one state to the next the last_usn of the monitor and the last_usn
\* stored in the volume record never decrease while the journal id stays the
\* same, and a journal id (of the monitor, of the record) changes only in a step
\* that reports JournalRecreated.
C3_CursorMonotone ==
    [][ /\ StoredJournalId' = StoredJournalId => StoredUsn' >= StoredUsn
        /\ (mon.pc # "off" /\ mon'.pc # "off" /\ mon'.journal_id = mon.journal_id)
             => mon'.last_usn >= mon.last_usn
        /\ (StoredJournalId # NULL /\ StoredJournalId' # StoredJournalId)
             => mon'.report = "JournalRecreated"
        /\ (mon.pc # "off" /\ mon'.pc # "off" /\ mon.journal_id # NULL
              /\ mon'.journal_id # mon.journal_id)
             => mon'.report = "JournalRecreated"
      ]_vars

\* C5: when the construction of the monitor or a poll reports JournalWrapped or
\* JournalRecreated, the monitor applies no further change, and a full rescan of
\* the volume is run afterwards: its record is inserted again by a bulk scan.
C5_RescanFollows ==
    /\ [][(mon.pc = "exited" /\ mon.report \in JournalErrors) => files' = files \/ ~MonCycle]_vars
    /\ (mon.pc = "exited" /\ mon.report \in JournalErrors)
         ~> (StoredRow.id # NULL /\ StoredRow.id > mon.volume_id)

\* C6: a monitor cycle writes last_usn and journal_id to the volume record only
\* when apply_changes_batch succeeded: a cycle whose apply failed leaves the
\* saved position as it was.
C6_PersistOnlyOnSuccess ==
    [][ (MonCycle /\ mon'.pc = "poll" /\ mon'.applied = "err")
          => (StoredUsn' = StoredUsn /\ StoredJournalId' = StoredJournalId) ]_vars

\* C8: while a bulk scan runs on a volume the state of its record is Indexing or
\* Rescanning, and no monitor cycle changes the rows of the volume while its
\* record is in one of those states or a bulk scan runs on it.
C8_ScanOwnsVolume ==
    [][ /\ \A d \in Drives :
             Scanning(scan', d) =>
                 /\ get_volume(volumes', d).id # NULL
                 /\ get_volume(volumes', d).state \in {"indexing", "rescanning"}
        /\ (MonCycle /\ files' # files) =>
                 /\ ~Scanning(scan, NtfsDrive)
                 /\ StoredRow.state \notin {"indexing", "rescanning"}
      ]_vars

\* C9: no two volume records share a drive_letter, and no two share a
\* volume_serial.
C9_VolumeKeysUnique ==
    \A v, w \in volumes :
        v # w => (v.drive_letter # w.drive_letter /\ v.volume_serial # w.volume_serial)

(* ------------------------------------------------------------------ *)
(* Properties of the files table (SpecCatalog)                        *)
(* ------------------------------------------------------------------ *)

\* the rows of fs that share their (volume_id, file_ref) with row
SameKey(fs, row) == RowsOf(fs, row.volume_id, row.file_ref)

\* C10: after any sequence of batch_insert_files, apply_changes_batch and
\* delete_volume_files the files table holds at most one row per
\* (volume_id, file_ref); a bulk insert that would add a second row of a key
\* fails without removing a row the table held; after a committed Create the
\* table holds the row the Create wrote (size at its default), which by the
\* first part is the only row of its key.
C10_OneRowPerRef ==
    /\ \A r \in BagToSet(files) : files[r] = 1 /\ SameKey(files, r) = {r}
    /\ [][ /\ \A r \in BagToSet(files') : files'[r] = 1 /\ SameKey(files', r) = {r}
           /\ (cat'.op = "batch_insert_files" /\ ~cat'.ok) =>
                \A r \in BagToSet(files) : r \in BagToSet(files')
           /\ cat'.created => \E r \in BagToSet(files') : r.size = 0
         ]_vars

\* a bulk insert has just failed on a key the table holds, and before it a
\* Create of the monitor had replaced a row (size at its default)
C10_Witness ==
    /\ cat.op = "batch_insert_files"
    /\ ~cat.ok
    /\ \E r \in BagToSet(files) : r.size = 0
    /\ \E r \in BagToSet(files) : r.size = 1

(* ------------------------------------------------------------------ *)
(* Properties of one operation of the files table (SpecFileOps)       *)
(* ------------------------------------------------------------------ *)

\* the rows of sequence rows as a bag
BagOfSeq(rows) ==
    [r \in {rows[i] : i \in 1..Len(rows)} |-> Cardinality({i \in 1..Len(rows) : rows[i] = r})]

\* the number of rows of volume v in the table fs, counted row by row
CountOf(fs, v) ==
    LET own == {r \in BagToSet(fs) : r.volume_id = v}
    IN  BagCardinality([r \in own |-> fs[r]])

\* the positions of rows whose INSERT cannot succeed after the rows before it:
\* a key that is not NULL and is held by the table tbl or by an earlier row
FailingAt(tbl, rows) ==
    {i \in 1..Len(rows) :
        /\ rows[i].file_ref # NULL
        /\ \/ \E r \in BagToSet(tbl) :
                r.volume_id = rows[i].volume_id /\ r.file_ref = rows[i].file_ref
           \/ \E k \in 1..(i - 1) :
                rows[k].volume_id = rows[i].volume_id /\ rows[k].file_ref = rows[i].file_ref}

\* C11: each chunk of batch_insert_files is all or nothing: when the insert of a
\* record fails the call returns an error, the table holds no record the failing
\* chunk added, and the records of the chunks committed before it remain; a call
\* none of whose records fails adds them all.
C11_ChunkAllOrNothing ==
    cat.op = "batch_insert_files" =>
        LET bad == FailingAt(cat.before, cat.rows)
        IN  IF bad = {}
            THEN cat.ok /\ files = cat.before (+) BagOfSeq(cat.rows)
            ELSE LET done == ((Min(bad) - 1) \div BATCH_SIZE) * BATCH_SIZE
                 IN  /\ ~cat.ok
                     /\ files = cat.before (+) BagOfSeq(SubSeq(cat.rows, 1, done))

\* the first chunk was committed and stays; the second chunk inserted its first
\* record, failed on its second, and its first record is not in the table
C11_Witness ==
    /\ cat.op = "batch_insert_files" /\ ~cat.ok
    /\ Len(cat.rows) = 2 * BATCH_SIZE
    /\ Min(FailingAt(cat.before, cat.rows)) = 2 * BATCH_SIZE
    /\ \A i \in 1..BATCH_SIZE : BagIn(cat.rows[i], files) /\ ~BagIn(cat.rows[i], cat.before)
    /\ ~BagIn(cat.rows[BATCH_SIZE + 1], files)

\* C12: after batch_insert_files(F) succeeds for rows of one volume that had no
\* rows, the count it returns is |F|, get_file_count of that volume is |F|, and
\* get_file_count of every other volume is what it was.
C12_InsertCountRoundTrip ==
    \A v \in VolumeIds :
        ( /\ cat.op = "batch_insert_files" /\ cat.ok
          /\ \A i \in 1..Len(cat.rows) : cat.rows[i].volume_id = v
          /\ get_file_count(cat.before, v) = 0 )
        => /\ cat.count = Len(cat.rows)
           /\ get_file_count(files, v) = Len(cat.rows)
           /\ \A w \in VolumeIds \ {v} :
                get_file_count(files, w) = get_file_count(cat.before, w)

\* more rows than one chunk holds were inserted for a volume without rows while
\* the other volume had rows
C12_Witness ==
    /\ cat.op = "batch_insert_files" /\ cat.ok
    /\ Len(cat.rows) > BATCH_SIZE
    /\ \A i \in 1..Len(cat.rows) : cat.rows[i].volume_id = 1
    /\ CountOf(cat.before, 1) = 0
    /\ CountOf(cat.before, 2) > 0
    /\ get_file_count(files, 1) = Len(cat.rows)

\* C13: delete_volume_files(v) removes every row of volume v, returns the number
\* of rows it removed, and leaves the rows of every other volume and the volume
\* records as they were.
C13_DeleteVolumeFrame ==
    [][ cat'.op = "delete_volume_files" =>
          /\ \A r \in BagToSet(files') : r.volume_id # cat'.volume_id
          /\ cat'.count = CountOf(files, cat'.volume_id)
          /\ \A r \in BagToSet(files) :
               r.volume_id # cat'.volume_id => (BagIn(r, files') /\ files'[r] = files[r])
          /\ \A r \in BagToSet(files') : BagIn(r, files)
          /\ volumes' = volumes
      ]_vars

\* the rows of a volume were removed while the other volume had a row, which stays
C13_Witness ==
    /\ cat.op = "delete_volume_files"
    /\ cat.count > 0
    /\ CountOf(files, cat.volume_id) = 0
    /\ \E r \in BagToSet(files) : r.volume_id # cat.volume_id
    /\ volumes # {}

(* ------------------------------------------------------------------ *)
(* Properties of rescans and of the volume records (Spec,              *)
(* SpecRemovable)                                                      *)
(* ------------------------------------------------------------------ *)

\* the bulk scan of process p ends with Ok in this step
ScanSucceeds(p) == scan[p].pc = "walk" /\ scan'[p].pc = "end" /\ scan'[p].result = "ok"

\* the bulk scan of process p starts in this step: its insert_volume has run
ScanStarts(p) == scan[p].pc = "idle" /\ scan'[p].pc = "walk"

\* C14: a full rescan of a volume that is already in the catalog destroys the
\* rows of the earlier scan: when the rescan ends with Ok the drive's record is
\* the one the scan wrote and no row written under the record it replaced is
\* left in the files table.
C14_RescanReplacesRows ==
    [][ \A p \in DOMAIN scan :
          (ScanSucceeds(p) /\ scan[p].replaced # NULL) =>
              /\ get_volume(volumes', scan[p].drive).id = scan[p].vid
              /\ \A r \in BagToSet(files') :
                   r.volume_id = scan[p].vid \/ r.volume_id # scan[p].replaced
      ]_vars

\* C15: insert_volume for a drive letter that has a record updates the record in
\* place: the id it returns is the id the record had, and the rows stored under
\* that id belong to the record get_volume returns for the drive afterwards.
C15_InsertVolumeKeepsId ==
    [][ \A p \in DOMAIN scan :
          (ScanStarts(p) /\ get_volume(volumes, scan'[p].drive).id # NULL) =>
              /\ scan'[p].vid = get_volume(volumes, scan'[p].drive).id
              /\ \A r \in BagToSet(files) :
                   r.volume_id = get_volume(volumes, scan'[p].drive).id
                     => r.volume_id = get_volume(volumes', scan'[p].drive).id
      ]_vars

(* ------------------------------------------------------------------ *)
(* Properties of the volume state machine (SpecRemovable,             *)
(* LiveRemovable)                                                     *)
(* ------------------------------------------------------------------ *)

\* the record of the removable drive
FatRow == get_volume(volumes, FatDrive)

\* the rows stored under volume id vid in the table fs
RowsUnder(fs, vid) == {r \in BagToSet(fs) : r.volume_id = vid}

\* the record of the removable drive holds the index of the medium with this
\* serial: its rows are the rows a scan of that medium writes
IngestedFrom(serial) ==
    /\ FatRow.id # NULL
    /\ LET es == FatEntries(serial)
       IN  RowsUnder(files, FatRow.id) =
             {FileRow(FatRow.id, es[i].file_ref, es[i].parent_ref, es[i].name,
                      es[i].size, es[i].modified, es[i].is_dir) : i \in 1..Len(es)}

\* C16: when the mount handler runs for the drive whose record is Offline and
\* was ingested from the medium that is in the drive again (the same physical
\* volume reconnects after it was ingested and unmounted), the handler sets the
\* record to Online and does not mark it Offline.
C16_SameVolumeGoesOnline ==
    [][ ( /\ RouterReady
          /\ FatRow.id # NULL /\ FatRow.state = "offline"
          /\ mounted # "none" /\ IngestedFrom(mounted) )
        => get_volume(volumes', FatDrive).state = "online" ]_vars

\* C17: volume swap at a drive letter. When the mount handler finds a serial that
\* differs from the record's, the record goes to Offline(now) and its rows stay;
\* when the orchestrator then starts its scan of the drive (the record is Offline,
\* it was ingested from another medium than the one mounted, the router has
\* handled every event), a new record with the serial of the new medium exists
\* after the scan's insert_volume and the old record is still there, Offline,
\* with its rows.
C17_SwapKeepsOldRecord ==
    [][ /\ ( /\ RouterReady /\ FatRow.id # NULL
             /\ SerialStr # "" /\ FatRow.volume_serial # SerialStr )
           => /\ get_volume(volumes', FatDrive).id = FatRow.id
              /\ get_volume(volumes', FatDrive).state = "offline"
              /\ get_volume(volumes', FatDrive).offline_since = now
              /\ files' = files
        /\ ( /\ ScanStarts("idx") /\ scan'["idx"].drive = FatDrive
             /\ FatRow.id # NULL /\ FatRow.state = "offline"
             /\ mounted # "none" /\ \E s \in Serials \ {mounted} : IngestedFrom(s)
             /\ router.events = <<>> /\ router.pending = NULL )
           => /\ \E w \in volumes' : w.id = FatRow.id /\ w.state = "offline"
              /\ \E w \in volumes' : /\ w.id = scan'["idx"].vid /\ w.id # FatRow.id
                                     /\ w.volume_serial = SerialStr
              /\ RowsUnder(files', FatRow.id) = RowsUnder(files, FatRow.id)
      ]_vars

PastRetention(v, t) == v.state = "offline" /\ t - v.offline_since >= RetentionTicks

ShutdownObserved(i) == i.shutdown_sent /\ i.shutdown_rx = 0

\* the rows of the entries of the drive that the orchestrator's scan read between
\* the two cursors
RowsBetween(lo, hi) ==
    LET all == ScanEntries(scan["idx"].drive)
    IN  BagOfSeq(SelectSeq(
            [j \in 1..Len(all) |->
                FileRow(scan["idx"].vid, all[j].file_ref, all[j].parent_ref, all[j].name,
                        all[j].size, all[j].modified, all[j].is_dir)],
            LAMBDA r : r.file_ref > lo /\ r.file_ref <= hi))

\* C20: once the orchestrator has observed the stop message, at a checkpoint of a
\* scan or between two volumes, the entries of the batch in flight are in the
\* files table, the scan returns Ok, and no scan of a further volume starts.
C20_ShutdownStopsScans ==
    [][ /\ ( /\ scan["idx"].pc = "walk"
             /\ ~ShutdownObserved(idx) /\ ShutdownObserved(idx') )
           => /\ scan'["idx"].pc = "end"
              /\ scan'["idx"].result = "ok"
              /\ files' = files (+) RowsBetween(scan["idx"].cursor, scan'["idx"].cursor)
        /\ ( /\ scan["idx"].pc = "idle"
             /\ ~ShutdownObserved(idx) /\ ShutdownObserved(idx') )
           => idx'.pc = "done" /\ files' = files /\ volumes' = volumes
        /\ ShutdownObserved(idx) => ~ScanStarts("idx")
      ]_vars

\* C21: once the service has reported StopPending it reports Stopped in the end,
\* whatever the orchestrator thread does or fails to do meanwhile.
C21_StopAlwaysCompletes ==
    (idx.status = "StopPending") ~> (idx.status = "Stopped")

(* ------------------------------------------------------------------ *)
(* Properties of the configuration (SpecConfig)                       *)
(* ------------------------------------------------------------------ *)

\* C22: a drive that is not enabled in the configuration is never indexed: no
\* scan of the orchestrator or of the reconciler runs on it, it gets no volume
\* record, and no step changes a record or a row of it.
C22_DisabledNeverIndexed ==
    [][ \A d \in Drives \ env.enabled :
          /\ \A p \in {"idx", "rec"} : ~(ScanStarts(p) /\ scan'[p].drive = d)
          /\ get_volume(volumes', d) = get_volume(volumes, d)
          /\ get_volume(volumes, d).id # NULL =>
                RowsUnder(files', get_volume(volumes, d).id)
                    = RowsUnder(files, get_volume(volumes, d).id)
      ]_vars

(* ------------------------------------------------------------------ *)
(* Properties of reconstruct_path (SpecPath)                          *)
(* ------------------------------------------------------------------ *)

\* the row of the table with this key
RowAt(fs, v, ref) == CHOOSE r \in RowsOf(fs, v, ref) : TRUE

\* a row that marks the root: its name is empty or "."
RootMarker(row) == row.name \in {"", "."}

\* where the walk from ref up the parent links ends when it stops at a link that
\* is NULL, at a missing row and at a root marker: "null", "missing" or "root";
\* "cycle" when it meets none of them within n rows
RECURSIVE ChainStop(_, _, _, _)
ChainStop(fs, v, ref, n) ==
    IF ref = NULL THEN "null"
    ELSE IF RowsOf(fs, v, ref) = {} THEN "missing"
    ELSE IF RootMarker(RowAt(fs, v, ref)) THEN "root"
    ELSE IF n = 0 THEN "cycle"
    ELSE ChainStop(fs, v, RowAt(fs, v, ref).parent_ref, n - 1)

\* the names on that walk, from the row nearest to its end down to ref
RECURSIVE ChainNames(_, _, _, _)
ChainNames(fs, v, ref, n) ==
    IF ref = NULL \/ n = 0 THEN <<>>
    ELSE IF RowsOf(fs, v, ref) = {} THEN <<>>
    ELSE IF RootMarker(RowAt(fs, v, ref)) THEN <<>>
    ELSE Append(ChainNames(fs, v, RowAt(fs, v, ref).parent_ref, n - 1),
                RowAt(fs, v, ref).name)

\* the rows of one volume
OnlyVolume(fs, v) == Without(fs, {r \in BagToSet(fs) : r.volume_id # v})

\* C23: when every row on the parent chain from the file up to the root is in the
\* catalog, reconstruct_path returns the names from the root's child down to the
\* file, in that order, and the rows of other volumes make no difference.
C23_CompleteChainPath ==
    ( /\ cat.op = "reconstruct_path"
      /\ ChainStop(files, cat.volume_id, cat.file_ref, Cardinality(PathRefs)) = "root" )
    => /\ cat.returns
       /\ cat.path = ChainNames(files, cat.volume_id, cat.file_ref, Cardinality(PathRefs))
       /\ reconstruct_path(OnlyVolume(files, cat.volume_id), cat.volume_id, cat.file_ref)
            = [returns |-> cat.returns, path |-> cat.path]

\* C30: reconstruct_path stops at the first parent_ref that is NULL, at the first
\* missing row and at the first root marker, whose parent_ref it does not follow:
\* it returns the names collected up to there.
C30_WalkStops ==
    ( /\ cat.op = "reconstruct_path"
      /\ ChainStop(files, cat.volume_id, cat.file_ref, Cardinality(PathRefs)) # "cycle" )
    => /\ cat.returns
       /\ cat.path = ChainNames(files, cat.volume_id, cat.file_ref, Cardinality(PathRefs))

(* ------------------------------------------------------------------ *)
(* Properties of the workers under faults (SpecFaults)                *)
(* ------------------------------------------------------------------ *)

\* the fault injected in this step, if any
NewFaults == env'.faults \ env.faults

C25_SignedWrapTest ==
    rs.pc \in {"resume", "poll_changes"} =>
        ( (~rs.out.ok /\ rs.out.err = "JournalWrapped")
          <=> rs.last_usn < rs.metadata.lowest_valid_usn )

\* a poll that read changes, all of them cancelled by deduplicate_changes
CancelledPoll(res) ==
    res.ok /\ res.changes # <<>> /\ DOMAIN DedupFold(res.changes, 1, <<>>) = {}

\* C26: when every change read by a poll is cancelled by the dedup (files created
\* and deleted inside the poll window), after that monitor cycle the catalog holds
\* no row for those files and the saved last_usn is the highest USN read.
C26_CancelledPollPersists ==
    [][ LET res == poll_changes(mon, journal)
        IN  (MonCycle /\ CancelledPoll(res))
              => /\ \A i \in 1..Len(res.changes) :
                      RowsOf(files', mon.volume_id, res.changes[i].file_ref) = {}
                 /\ get_volume_usn(volumes', mon.volume_id).last_usn
                      = journal.recs[Len(journal.recs)].usn ]_vars

\* the saved position alone: it is the highest USN read by the cancelled poll
C26_CursorSaved ==
    [][ LET res == poll_changes(mon, journal)
        IN  (MonCycle /\ CancelledPoll(res))
              => get_volume_usn(volumes', mon.volume_id).last_usn
                      = journal.recs[Len(journal.recs)].usn ]_vars

\* the changes of the records of journal j above cursor c, in journal order
ChangesAfter(j, c) ==
    LET newer == SelectSeq(j.recs, LAMBDA r : r.usn > c)
    IN  [i \in 1..Len(newer) |-> newer[i].change]

\* the highest USN of journal j above cursor c, or c when there is none
HighestAfter(j, c) ==
    Max({c} \cup {r.usn : r \in {j.recs[i] : i \in DOMAIN j.recs}})

\* the changes of the records of journal j above cursor c and up to cursor d
ChangesBetween(j, c, d) ==
    LET passed == SelectSeq(j.recs, LAMBDA r : r.usn > c /\ r.usn <= d)
    IN  [i \in 1..Len(passed) |-> passed[i].change]

\* C27: across polls that return Ok, with no wrap and no recreation, every record
\* above the initial cursor is emitted exactly once: no poll moves the cursor past
\* a record it did not return, so the changes emitted so far are exactly the
\* records between the initial cursor and the present one, in journal order.
C27_EveryRecordOnce ==
    [][ PollRead
          => /\ rs'.emitted = rs.emitted \o ChangesBetween(journal, rs.last_usn, rs'.last_usn)
             /\ rs'.emitted = ChangesBetween(journal, rs.start, rs'.last_usn) ]_vars

\* as long as every record could be read, each poll returns exactly the records
\* above the cursor it started with and leaves the cursor on the highest of them
C27_WhenAllRead ==
    [][ (PollRead /\ rs'.errors = 0)
          => /\ rs'.emitted = rs.emitted \o ChangesAfter(journal, rs.last_usn)
             /\ rs'.emitted = ChangesAfter(journal, rs.start)
             /\ rs'.last_usn = HighestAfter(journal, rs.last_usn) ]_vars

\* the only row of table fs for (v, ref)
TheRow(fs, v, ref) == CHOOSE r \in RowsOf(fs, v, ref) : TRUE

\* table fs holds exactly one row for (v, ref)
OneRow(fs, v, ref) ==
    /\ Cardinality(RowsOf(fs, v, ref)) = 1
    /\ CopiesIn(TheRow(fs, v, ref), fs) = 1

\* a call of apply_changes_batch with one change, whose statement was executed
\* and committed
OneApplied == cat.op = "apply_changes_batch" /\ Len(cat.changes) = 1 /\ cat.failed = {} /\ cat.ok

\* C28: apply_changes_batch applies a change by (volume_id, file_ref) and touches
\* no other row: Create leaves exactly one row for the ref, with the name and
\* parent_ref of the change; Delete leaves none; Rename sets name and parent_ref
\* and leaves size, modified and is_dir; Modify sets only name; Rename, Modify
\* and Delete on a ref without a row create nothing.
C28_ChangeFrame ==
    OneApplied =>
      LET change == cat.changes[1]
          v      == cat.volume_id
          ref    == change.file_ref
          had    == RowsOf(cat.before, v, ref)
          has    == RowsOf(files, v, ref)
      IN  /\ Without(files, has) = Without(cat.before, had)
          /\ change.change_type = "Create" =>
               /\ OneRow(files, v, ref)
               /\ TheRow(files, v, ref).name = change.name
               /\ TheRow(files, v, ref).parent_ref = change.parent_ref
          /\ change.change_type = "Delete" => has = {}
          /\ (change.change_type # "Create" /\ had = {}) => has = {}
          /\ (change.change_type = "Rename" /\ had # {}) =>
               /\ OneRow(files, v, ref)
               /\ TheRow(files, v, ref) =
                    [TheRow(cat.before, v, ref) EXCEPT !.name = change.name,
                                                       !.parent_ref = change.parent_ref]
          /\ (change.change_type = "Modify" /\ had # {}) =>
               /\ OneRow(files, v, ref)
               /\ TheRow(files, v, ref) =
                    [TheRow(cat.before, v, ref) EXCEPT !.name = change.name]

\* a Modify was applied to the row of a directory under another parent than the
\* one the change names, in a table that holds a second row
C28_Witness ==
    /\ OneApplied
    /\ cat.changes[1].change_type = "Modify"
    /\ RowsOf(cat.before, cat.volume_id, cat.changes[1].file_ref) # {}
    /\ TheRow(cat.before, cat.volume_id, cat.changes[1].file_ref).is_dir
    /\ TheRow(cat.before, cat.volume_id, cat.changes[1].file_ref).parent_ref
         # cat.changes[1].parent_ref
    /\ BagCardinality(files) = 2

\* the changes of a batch whose statements did not fail, in the order of the batch
Succeeded(changes, failed) ==
    LET kept == SeqOfSet((1..Len(changes)) \ failed)
    IN  [i \in 1..Len(kept) |-> changes[kept[i]]]

\* C29: a change whose statement fails is skipped and the batch goes on: the
\* committed table is the one the succeeding changes alone produce, the count
\* returned is the number of succeeding statements, at most the length of the
\* batch; when the commit fails the table is as before the batch.
C29_FailedStatementSkipped ==
    cat.op = "apply_changes_batch" =>
      /\ cat.ok =>
           /\ files = apply_changes_batch(cat.before, cat.volume_id,
                                          Succeeded(cat.changes, cat.failed), TRUE).files
           /\ cat.count = Len(cat.changes) - Cardinality(cat.failed)
           /\ cat.count <= Len(cat.changes)
      /\ ~cat.ok => files = cat.before

\* the first statement of a batch of two failed and the second one, a Create,
\* was committed and counted
C29_Witness ==
    /\ cat.op = "apply_changes_batch"
    /\ cat.ok
    /\ Len(cat.changes) = 2
    /\ cat.failed = {1}
    /\ cat.changes[2].change_type = "Create"
    /\ cat.count = 1
    /\ files # cat.before

(***************************************************************************)
(* The search popup (ui/app.rs).  The fields of SearchApp that the search  *)
(* touches are kept in rs: query, results, search_pending,                 *)
(* last_query_change and pending_results, the receiver of the channel of   *)
(* the search in flight.  Every execute_search of a non-empty query opens  *)
(* a channel of its own and spawns a task that holds the sender; chan[i]   *)
(* is the message waiting in channel i and task[i] the query of the task   *)
(* that has not answered yet.  executed is a history field: the query of   *)
(* the latest execute_search.                                              *)
(***************************************************************************)
Queries == {"", "a", "b"}

NoTask == "none"
NoMessage == [sent |-> FALSE, results |-> <<>>]

\* the result list the service returns for a query
Hits(q) == <<q>>

\* SearchResponse of the spawned task: the service's answer, or the empty
\* response the task sends when the request failed
SearchResponse(q, ok) == [sent |-> TRUE, results |-> IF ok THEN Hits(q) ELSE <<>>]

\* SearchApp::new
UiInit ==
    /\ SysInit
    /\ dd = DdOff
    /\ cat = CatOff
    /\ rs = [pc |-> "ui", query |-> "", results |-> <<>>,
             search_pending |-> FALSE, last_query_change |-> NULL,
             pending_results |-> NULL, spawned |-> 0,
             chan |-> [i \in 1..MaxSearches |-> NoMessage],
             task |-> [i \in 1..MaxSearches |-> NoTask],
             executed |-> NoTask]

\* check_pending_results: a response waiting in the channel of pending_results
\* replaces the results and the receiver is dropped
check_pending_results(a) ==
    IF a.pending_results # NULL /\ a.chan[a.pending_results].sent
    THEN [a EXCEPT !.results = a.chan[a.pending_results].results,
                   !.chan[a.pending_results] = NoMessage,
                   !.pending_results = NULL]
    ELSE a

\* execute_search: the empty query clears the results and returns, leaving
\* pending_results as it is; any other query opens a new channel, keeps its
\* receiver in pending_results (the old receiver is dropped) and spawns the task
execute_search(a) ==
    IF a.query = ""
    THEN [a EXCEPT !.results = <<>>, !.executed = a.query]
    ELSE [a EXCEPT !.pending_results = a.spawned + 1,
                   !.spawned = a.spawned + 1,
                   !.task[a.spawned + 1] = a.query,
                   !.executed = a.query]

\* the debounce of update: a pending search runs once the query has been
\* unchanged for the debounce time
debounce(a, t) ==
    IF a.search_pending /\ a.last_query_change # NULL
       /\ t - a.last_query_change >= SearchDebounceTicks
    THEN execute_search([a EXCEPT !.search_pending = FALSE])
    ELSE a

\* the text box of update: a changed text calls trigger_search
text_edit(a, text, t) ==
    IF text # a.query
    THEN [a EXCEPT !.query = text, !.search_pending = TRUE, !.last_query_change = t]
    ELSE a

\* one frame, <SearchApp as eframe::App>::update, with the text of the box
\* after this frame as its input
UiUpdate ==
    /\ rs.pc = "ui"
    /\ \E text \in Queries :
         /\ text # rs.query => rs.spawned < MaxSearches
         /\ rs' = text_edit(debounce(check_pending_results(rs), now), text, now)
    /\ UNCHANGED <<sysvars, dd, cat>>

\* the task spawned by execute_search gets the answer of the service, or an
\* error, and sends the response; a send into a channel whose receiver was
\* dropped is ignored
SearchTask ==
    /\ rs.pc = "ui"
    /\ \E i \in 1..MaxSearches, ok \in BOOLEAN :
         /\ rs.task[i] # NoTask
         /\ rs' = [rs EXCEPT !.task[i] = NoTask,
                             !.chan[i] = IF rs.pending_results = i
                                         THEN SearchResponse(rs.task[i], ok)
                                         ELSE NoMessage]
    /\ UNCHANGED <<sysvars, dd, cat>>

\* time passes between two frames
UiTick ==
    /\ rs.pc = "ui"
    /\ now < MaxTime
    /\ now' = now + 1
    /\ UNCHANGED <<volumes, files, disk, mounted, journal, mon, scan, idx, rec, router, env, dd, rs, cat>>

UiNext == UiUpdate \/ SearchTask \/ UiTick

SpecSearch == UiInit /\ [][UiNext]_vars

\* the router step takes an event of kind e from the channel
Takes(e) ==
    /\ router.events # <<>>
    /\ Head(router.events) = e
    /\ router'.events = Tail(router.events)

\* the router step ends the pending mount without taking an event
EndsPending ==
    /\ router.pending # NULL
    /\ router'.pending = NULL
    /\ router'.events = router.events

\* C31: the router debounces mounts. Taking a Mounted event only restarts the
\* window; the mount handler runs no earlier than the window after the most
\* recent Mounted event taken, once for all the events of a window; an Unmounted
\* event is handled when it is taken and cancels the pending mount, leaving the
\* volume Offline; and a pending mount whose window can run out is handled,
\* cancelled or restarted by a newer event, unless the loop saw the shutdown.
C31_Debounce ==
    /\ [][ /\ Takes("Mounted") => (router'.pending = now /\ volumes' = volumes)
           /\ Takes("Unmounted") =>
                /\ router'.pending = NULL
                /\ volumes' = handle_volume_unmount(volumes, FatDrive, now)
                /\ FatRow.id # NULL => get_volume(volumes', FatDrive).state = "offline"
           /\ EndsPending =>
                /\ now - router.pending >= DebounceTicks
                /\ volumes' = handle_volume_mount(volumes, FatDrive, SerialStr, now)
           /\ volumes' # volumes => (EndsPending \/ Takes("Unmounted"))
           /\ rs.pc = "returned" =>
                (router'.pending = router.pending /\ volumes' = volumes) ]_vars
    /\ \A t \in 1..MaxTime :
         (router.pending = t /\ t + DebounceTicks <= MaxTime)
           ~> (router.pending # t \/ rs.pc = "returned")

\* both events of the run were taken, the last of them a Mounted, and its pending
\* mount was handled after the window: the handler wrote the record at this time
C31_Witness ==
    /\ env.events = 2
    /\ router.events = <<>>
    /\ router.pending = NULL
    /\ mounted # "none"
    /\ FatRow.state = "offline"
    /\ FatRow.offline_since = now
    /\ now >= 1 + DebounceTicks
    /\ rs.pc = "router"

\* the reconciler takes up drive d in this step
RecTakes(d) == rec.pc = "idle" /\ rec'.pc = "scan" /\ rec'.drive = d

\* the reconciler is through with the drive it took up in this step
RecLeaves == rec.pc = "scan" /\ rec'.pc = "idle"

\* C32: the reconciler rescans a drive only when now - last_scan >= interval; the
\* record of the drive goes to Rescanning before the walk and back to Online only
\* after the walk completed ok; last_scan becomes the completion time; the drives
\* that are not taken up keep their state and last_scan.
C32_ReconcilerStep ==
    [][ /\ \A d \in rec.vols :
             RecTakes(d) =>
               /\ now - rec.last_scan[d] >= ReconcileTicks
               /\ get_volume(volumes, d).id # NULL
                    => get_volume(volumes', d).state = "rescanning"
        /\ RecLeaves =>
             /\ rec'.last_scan[rec.drive] = now
             /\ \A d \in rec.vols \ {rec.drive} :
                  /\ rec'.last_scan[d] = rec.last_scan[d]
                  /\ get_volume(volumes', d) = get_volume(volumes, d)
             /\ (/\ get_volume(volumes', rec.drive).id # NULL
                 /\ get_volume(volumes', rec.drive).state = "online")
                  => scan["rec"].result = "ok" ]_vars

\* the same without the condition on the outcome of the walk
C32_DueAndFrame ==
    [][ /\ \A d \in rec.vols :
             RecTakes(d) =>
               /\ now - rec.last_scan[d] >= ReconcileTicks
               /\ get_volume(volumes, d).id # NULL
                    => get_volume(volumes', d).state = "rescanning"
        /\ RecLeaves =>
             /\ rec'.last_scan[rec.drive] = now
             /\ \A d \in rec.vols \ {rec.drive} :
                  /\ rec'.last_scan[d] = rec.last_scan[d]
                  /\ get_volume(volumes', d) = get_volume(volumes, d) ]_vars

\* C33: reason_to_change_type gives every reason bitmap exactly one ChangeType by
\* the priority Delete > Create > Rename > Modify: Delete if the delete bit is set;
\* else Create if the create bit is set; else Rename if the rename-old-name or the
\* rename-new-name bit is set; else Modify.
C33_ReasonPriority ==
    rs.pc = "classified" =>
      LET del == HasFlag(rs.reason, USN_REASON_FILE_DELETE)
          cre == HasFlag(rs.reason, USN_REASON_FILE_CREATE)
          ren == \/ HasFlag(rs.reason, USN_REASON_RENAME_OLD_NAME)
                 \/ HasFlag(rs.reason, USN_REASON_RENAME_NEW_NAME)
      IN  /\ rs.change_type \in ChangeTypes
          /\ rs.change_type = "Delete" <=> del
          /\ rs.change_type = "Create" <=> (cre /\ ~del)
          /\ rs.change_type = "Rename" <=> (ren /\ ~cre /\ ~del)
          /\ rs.change_type = "Modify" <=> (~ren /\ ~cre /\ ~del)

\* a reason with the delete, create and rename bits and bit 30 was classified
C33_Witness ==
    /\ rs.pc = "classified"
    /\ rs.reason = 2 ^ 30 + USN_REASON_FILE_DELETE + USN_REASON_FILE_CREATE
                     + USN_REASON_RENAME_NEW_NAME
    /\ rs.change_type = "Delete"

\* what the claim compares of a files table: refs, names and parent_refs
RefNameParent(fs) ==
    {[volume_id |-> r.volume_id, file_ref |-> r.file_ref, name |-> r.name,
      parent_ref |-> r.parent_ref] : r \in BagToSet(fs)}

\* C34: deduplication does not change the outcome: for every catalog and polling
\* batch, the deduplicated batch applied by apply_changes_batch leaves the same
\* rows (refs, names, parent_refs) as the raw batch applied change by change in
\* journal order; a file created and then renamed or modified in the batch, and
\* not deleted, has a row afterwards.
C34_DedupKeepsOutcome ==
    (/\ dd.pc = "applied"
     /\ dd.after = apply_changes_batch(dd.before, 1, dd.deduped, TRUE).files)
      => RefNameParent(dd.after)
           = RefNameParent(apply_changes_batch(dd.before, 1, dd.batch, TRUE).files)

\* C35: reconstruct_path terminates for every catalog and every (volume_id,
\* file_ref), also when the parent chain holds a cycle such as a root record that
\* is its own parent: every call returns.
C35_WalkTerminates ==
    cat.op = "reconstruct_path" => cat.returns

\* C36: after the caller has sent one shutdown signal and keeps the sender, the
\* reconciler thread eventually returns, also when the signal is taken by the
\* check inside check_and_reconcile or inside a directory walk.
C36_ReconcilerStops ==
    rs.sent ~> (rs.pc = "returned")

\* C37: a volume whose last lifecycle event is an unmount is not left Online: when
\* the unmount was handled while the reconciler rescans the drive, so that the
\* record is Offline when the rescan finishes, the record is still Offline after
\* the reconciler is through with the drive.
C37_UnmountSurvivesRescan ==
    [][ (/\ RecLeaves
         /\ rec.drive = FatDrive
         /\ mounted = "none"
         /\ router.events = <<>>
         /\ router.pending = NULL
         /\ FatRow.id # NULL
         /\ FatRow.state = "offline")
          => get_volume(volumes', FatDrive).state = "offline" ]_vars

\* C38: referential integrity of the catalog: every row of the files table
\* carries the id of an existing volume record, so no row is orphaned.
C38_NoOrphanRows ==
    \A r \in BagToSet(files) : \E v \in volumes : v.id = r.volume_id

\* C39: in the search popup, once a search for the empty query has run and
\* cleared the results, the results stay empty until a later non-empty query
\* is executed, also when the response of an earlier search is still in flight.
\* Stated for the frames in which the box is still empty, so that no newer
\* query is on its way.
C39_ClearedStaysEmpty ==
    (rs.pc = "ui" /\ rs.executed = "" /\ rs.query = "") => rs.results = <<>>

\* the other half of C39: while the latest executed query is non-empty, a frame
\* that puts results on display puts up the response of that query, never the
\* response of a search it superseded
C39_SupersededDropped ==
    [][ (/\ rs.pc = "ui"
         /\ rs.executed \notin {"", NoTask}
         /\ rs'.results # rs.results
         /\ rs'.results # <<>>)
          => rs'.results = Hits(rs.executed) ]_vars


====
